---------------------------- MODULE Spec2Model ----------------------------
(***************************************************************************)
(* Model of the calliopeai-proxy request gateway.                          *)
(*                                                                         *)
(* Part 1: the model-proxy pipeline (modelProxyController.ts,              *)
(* llmProxyService, proxyUtils.ts): one inbound request at a time moves    *)
(* through presence checks, model-string parsing, the rerank capability    *)
(* gate, credential lookup, endpoint resolution, the outbound axios call   *)
(* and the relay of its result (Spec).                                     *)
(*                                                                         *)
(* Part 2: the piped relay of a streamed result, chunk by chunk, with the  *)
(* upstream failing and the caller disconnecting (SpecStream).             *)
(*                                                                         *)
(* Part 3: CrawlerService.launchCrawl (crawlerService.ts) under the        *)
(* crawler it configures: concurrent page handlers, retries, the failed-   *)
(* request handler, the converter and the vector store (SpecCrawl); the   *)
(* same under fair scheduling of the crawler's steps (SpecCrawlFair); and  *)
(* launchCrawl called again in the same process (SpecCrawls).              *)
(*                                                                         *)
(* Part 4: MCPClientService (mcpClientService.ts): the service object per  *)
(* url, connect() with its fallback transport, callTool() and              *)
(* disconnect(), with calls in flight at the same time (SpecMcp).          *)
(*                                                                         *)
(* Part 5: parseModelString, getApiKey and the top-level error handler     *)
(* called directly on drawn arguments (SpecUnit).                          *)
(*                                                                         *)
(* Part 6: the routes behind their authentication middleware, and the      *)
(* crawl controller with the crawl it awaits (SpecApi).                    *)
(*                                                                         *)
(* Encoding of JavaScript values:                                          *)
(*   - a string is Str(s), s a sequence of atoms; the atom "/" is the      *)
(*     slash character, "env:" the four characters e,n,v,: and every other *)
(*     atom a non-empty run of characters holding none of these;           *)
(*   - undefined, null, booleans and numbers are tagged scalars [t, v];    *)
(*   - an object is a TLA+ record with the object's own keys.              *)
(***************************************************************************)
EXTENDS Integers, Sequences, FiniteSets, TLC

\* Number of inbound requests one run of the server is followed for.
MaxServed == 2

(***************************************************************************)
(* JavaScript values                                                       *)
(***************************************************************************)
Undefined == [t |-> "undefined", v |-> <<>>]
Null == [t |-> "null", v |-> <<>>]
Bool(b) == [t |-> "boolean", v |-> <<IF b THEN "true" ELSE "false">>]
Num(n) == [t |-> "number", v |-> <<ToString(n)>>]
Str(s) == [t |-> "string", v |-> s]
\* A live readable stream (an object with a pipe method).
StreamOf(id) == [t |-> "stream", v |-> <<id>>]

IsScalar(x) == DOMAIN x = {"t", "v"}

\* JavaScript truthiness: undefined, null, false, 0 and "" are falsy;
\* objects (streams included) are truthy.
Truthy(x) ==
    IF IsScalar(x)
    THEN /\ x.t \notin {"undefined", "null"}
         /\ x # Bool(FALSE)
         /\ x # Num(0)
         /\ x # Str(<<>>)
    ELSE TRUE

\* obj[key], undefined when the object has no such key.
Get(obj, key) == IF key \in DOMAIN obj THEN obj[key] ELSE Undefined

\* { ...obj, key: val }
With(obj, key, val) ==
    [k \in DOMAIN obj \cup {key} |-> IF k = key THEN val ELSE obj[k]]

\* const { a, b, ...rest } = obj : the rest
Rest(obj, keys) == [k \in DOMAIN obj \ keys |-> obj[k]]

EmptyObject == [k \in {} |-> Undefined]

(***************************************************************************)
(* String helpers                                                          *)
(***************************************************************************)
Slash == "/"

\* String.prototype.toLowerCase on one atom (the atoms used below with an
\* upper-case letter, every other atom being lower case already).
LowerAtom(a) ==
    CASE a = "Cohere" -> "cohere"
      [] a = "OpenAI" -> "openai"
      [] OTHER -> a

ToLowerCase(s) == [i \in 1..Len(s) |-> LowerAtom(s[i])]

\* A split that stops at the first slash.
SplitOnce(s) ==
    IF \A i \in 1..Len(s) : s[i] # "/"
    THEN <<s>>
    ELSE LET p == CHOOSE i \in 1..Len(s) :
                      s[i] = "/" /\ \A j \in 1..(i - 1) : s[j] # "/"
         IN <<SubSeq(s, 1, p - 1), SubSeq(s, p + 1, Len(s))>>

\* String.prototype.split('/'): the segments between slashes, an empty
\* segment for two adjacent slashes or a leading or trailing slash.
RECURSIVE Split(_)
Split(s) ==
    IF \A i \in 1..Len(s) : s[i] # Slash
    THEN <<s>>
    ELSE LET p == CHOOSE i \in 1..Len(s) :
                      /\ s[i] = Slash
                      /\ \A j \in 1..(i - 1) : s[j] # Slash
         IN <<SubSeq(s, 1, p - 1)>> \o Split(SubSeq(s, p + 1, Len(s)))

\* Array.prototype.join('/').
RECURSIVE Join(_)
Join(parts) ==
    IF Len(parts) = 0 THEN <<>>
    ELSE IF Len(parts) = 1 THEN parts[1]
    ELSE parts[1] \o <<Slash>> \o Join(Tail(parts))

EndsWithSlash(s) == Len(s) > 0 /\ s[Len(s)] = Slash
StartsWithSlash(s) == Len(s) > 0 /\ s[1] = Slash

(***************************************************************************)
(* proxyUtils.ts: parseModelString                                         *)
(***************************************************************************)
InvalidModel(owner, pkg, provider, name, err) ==
    [ownerSlug |-> owner, packageSlug |-> pkg, provider |-> provider,
     modelName |-> name, isValid |-> FALSE, error |-> err]

\* A parseModelString without the test of lines 36-45.
parseModelStringKeepingEmpty(modelString) ==
    IF ~Truthy(modelString) \/ modelString.t # "string"
    THEN InvalidModel(<<>>, <<>>, <<>>, <<>>, <<"NotAString">>)
    ELSE LET parts == Split(modelString.v) IN
         IF Len(parts) # 4
         THEN InvalidModel(<<>>, <<>>, <<>>, <<>>,
                           <<"InvalidFormat", ToString(Len(parts))>>)
         ELSE [ownerSlug |-> parts[1], packageSlug |-> parts[2],
               provider |-> parts[3], modelName |-> parts[4],
               isValid |-> TRUE, error |-> <<>>]

parseModelString(modelString) ==
    IF ~Truthy(modelString) \/ modelString.t # "string"
    THEN InvalidModel(<<>>, <<>>, <<>>, <<>>, <<"NotAString">>)
    ELSE LET parts == Split(modelString.v) IN
         IF Len(parts) # 4
         THEN InvalidModel(<<>>, <<>>, <<>>, <<>>,
                           <<"InvalidFormat", ToString(Len(parts))>>)
         ELSE IF parts[1] = <<>> \/ parts[2] = <<>>
                 \/ parts[3] = <<>> \/ parts[4] = <<>>
         THEN InvalidModel(parts[1], parts[2], parts[3], parts[4],
                           <<"EmptySegment">>)
         ELSE [ownerSlug |-> parts[1], packageSlug |-> parts[2],
               provider |-> parts[3], modelName |-> parts[4],
               isValid |-> TRUE, error |-> <<>>]

\* The value of parsedModel before parseModelString has run.
NotParsed == InvalidModel(<<>>, <<>>, <<>>, <<>>, <<"NotParsed">>)

(***************************************************************************)
(* llmProxyService: getApiKey                                              *)
(***************************************************************************)
EnvPrefix == "env:"

\* process.env[name]: undefined when the variable is not set.
EnvLookup(environment, name) ==
    IF name \in DOMAIN environment THEN Str(environment[name]) ELSE Undefined

\* A getApiKey that reads the variable whatever the prefix.
getApiKeyAnyPrefix(environment, apiKeyLocation) ==
    IF ~Truthy(apiKeyLocation)
    THEN Null
    ELSE LET apiKey == EnvLookup(environment, Tail(apiKeyLocation.v)) IN
         IF ~Truthy(apiKey) THEN Null ELSE apiKey

getApiKey(environment, apiKeyLocation) ==
    IF ~Truthy(apiKeyLocation)
    THEN Null
    ELSE IF Head(apiKeyLocation.v) = EnvPrefix
    THEN LET apiKey == EnvLookup(environment, Tail(apiKeyLocation.v)) IN
         IF ~Truthy(apiKey) THEN Null ELSE apiKey
    ELSE Null


(***************************************************************************)
(* Responses written to the caller                                         *)
(***************************************************************************)
NoHeaders == [k \in {} |-> ""]

\* res.status(status).json(body)
JsonResponse(status, headers, body) ==
    [status |-> status, headers |-> headers, body |-> body, via |-> "json"]

\* res.status(status); stream.pipe(res)
PipedResponse(status, headers, stream) ==
    [status |-> status, headers |-> headers, body |-> stream, via |-> "pipe"]

\* Nothing written yet.
NoResponse == [status |-> 0, headers |-> NoHeaders, body |-> Undefined,
               via |-> "none"]

BadRequest(body) == JsonResponse(400, NoHeaders, body)

(***************************************************************************)
(* modelProxyController.ts: handleProxyRequest, the steps before the call  *)
(***************************************************************************)
MsgMissingModel == Str(<<"Missing required parameter: model">>)
MsgMissingProperties == Str(<<"Missing calliopeProperties in request body">>)
MsgMissingKeyLocation ==
    Str(<<"Missing required field: calliopeProperties.apiKeyLocation">>)
MsgInvalidModel == Str(<<"Invalid model string format.">>)
MsgKeyFailure ==
    Str(<<"Failed to retrieve API key. Check apiKeyLocation and environment variables.">>)
MsgBaseRequired ==
    Str(<<"apiBase is required for unknown providers. Please specify calliopeProperties.apiBase">>)

\* The calliopeProperties object of a body, EmptyObject standing for a body
\* that passed the presence check with an object holding none of the fields.
Properties(body) ==
    IF "calliopeProperties" \in DOMAIN body
    THEN body["calliopeProperties"] ELSE EmptyObject

HasProperties(body) == "calliopeProperties" \in DOMAIN body

\* const { model, calliopeProperties, ...downstreamBody } = req.body
DownstreamBody(body) == Rest(body, {"model", "calliopeProperties"})

\* Lines 10-23: the response of the first failing presence check, NoResponse
\* when all three pass.
CheckPresenceSkippingKeyLocation(body) ==
    IF ~Truthy(Get(body, "model"))
    THEN BadRequest([error |-> MsgMissingModel])
    ELSE IF ~HasProperties(body)
    THEN BadRequest([error |-> MsgMissingProperties])
    ELSE NoResponse

CheckPresence(body) ==
    IF ~Truthy(Get(body, "model"))
    THEN BadRequest([error |-> MsgMissingModel])
    ELSE IF ~HasProperties(body)
    THEN BadRequest([error |-> MsgMissingProperties])
    ELSE IF ~Truthy(Get(Properties(body), "apiKeyLocation"))
    THEN BadRequest([error |-> MsgMissingKeyLocation])
    ELSE NoResponse

\* Lines 26-33.
InvalidModelResponse(parsedModel, model) ==
    BadRequest([error |-> MsgInvalidModel,
                details |-> Str(parsedModel.error),
                receivedModelString |-> model])

\* Lines 36-39: the same body whatever the request.
KeyFailureEchoingLocation(body) ==
    BadRequest([error |-> Str(MsgKeyFailure.v
                              \o Get(Properties(body), "apiKeyLocation").v)])

KeyFailureResponse(body) == BadRequest([error |-> MsgKeyFailure])

\* Lines 47-62: the static table of default base URLs.
DefaultBases ==
    [p \in {<<"openai">>, <<"anthropic">>, <<"cohere">>, <<"google">>,
            <<"gemini">>} |->
        CASE p = <<"openai">> -> <<"https://api.openai.com/v1">>
          [] p = <<"anthropic">> -> <<"https://api.anthropic.com/v1">>
          [] p = <<"cohere">> -> <<"https://api.cohere.ai/v1">>
          [] OTHER -> <<"https://generativelanguage.googleapis.com/v1beta/openai">>]

\* Lines 43-69: the base URL, <<>> when the provider is unknown and no
\* apiBase was given.
ResolveBase(parsedModel, properties) ==
    LET apiBase == Get(properties, "apiBase")
        provider == ToLowerCase(parsedModel.provider)
    IN IF Truthy(apiBase) THEN apiBase.v
       ELSE IF provider \in DOMAIN DefaultBases THEN DefaultBases[provider]
       ELSE <<>>

\* Lines 63-66.
BaseRequiredResponse(parsedModel) ==
    BadRequest([error |-> MsgBaseRequired,
                provider |-> Str(ToLowerCase(parsedModel.provider))])

\* A join that keeps the trailing slash of the base.
JoinUrlKeepingSlash(apiBaseUrl, endpointPath) == apiBaseUrl \o endpointPath

\* Lines 73-75.
JoinUrl(apiBaseUrl, endpointPath) ==
    LET base == IF EndsWithSlash(apiBaseUrl)
                THEN SubSeq(apiBaseUrl, 1, Len(apiBaseUrl) - 1)
                ELSE apiBaseUrl
        path == IF StartsWithSlash(endpointPath)
                THEN endpointPath ELSE <<Slash>> \o endpointPath
    IN base \o path

\* Lines 80-83: { ...downstreamBody, model: parsedModel.modelName }
BodyKeepingProperties(body, parsedModel) ==
    With(Rest(body, {"model"}), "model", Str(parsedModel.modelName))

RequestBodyForDownstream(body, parsedModel) ==
    With(DownstreamBody(body), "model", Str(parsedModel.modelName))

(***************************************************************************)
(* modelProxyController.ts: proxyRerank, where it differs                  *)
(***************************************************************************)
\* Line 177.
SupportedRerankProvidersWithOpenAI == {<<"cohere">>, <<"openai">>}

SupportedRerankProviders == {<<"cohere">>}

\* Lines 176-186: the rejection of a provider that cannot rerank, NoResponse
\* for one that can.
RerankGate(parsedModel) ==
    LET provider == ToLowerCase(parsedModel.provider) IN
    IF provider \notin SupportedRerankProviders
    THEN BadRequest(
           [error |-> Str(<<"Reranking is not supported for provider '">>
                          \o provider \o <<"'. Supported providers: ">>
                          \o <<"cohere">>),
            provider |-> Str(provider),
            supportedProviders |-> <<"cohere">>])
    ELSE NoResponse

\* Lines 195-213.
RerankResolveBase(parsedModel, properties) ==
    LET apiBase == Get(properties, "apiBase")
        provider == ToLowerCase(parsedModel.provider)
    IN IF Truthy(apiBase) THEN apiBase.v
       ELSE IF provider = <<"cohere">> THEN <<"https://api.cohere.ai/v1">>
       ELSE <<>>

\* Lines 207-210.
RerankBaseRequiredResponse(parsedModel) ==
    BadRequest([error |-> Str(<<"apiBase is required for this rerank provider">>),
                provider |-> Str(ToLowerCase(parsedModel.provider))])

\* Line 196.
RerankEndpoint == <<Slash, "rerank">>

(***************************************************************************)
(* llmProxyService: proxyLlmRequest                                        *)
(***************************************************************************)
\* Line 381: the timeout of a buffered call, in milliseconds.
BufferedTimeoutMs == 30000

\* Lines 363-382: the axios request configuration.
AxiosConfigLeaking(originalRequest, downstreamUrl, apiKey, requestBody) ==
    [method |-> originalRequest.method,
     url |-> downstreamUrl,
     headers |-> [h \in {"Content-Type", "Authorization", "X-Client-Authorization"} |->
                    CASE h = "Content-Type" -> <<"application/json">>
                      [] h = "Authorization" -> <<"Bearer ">> \o apiKey.v
                      [] OTHER -> originalRequest.headers["authorization"]],
     data |-> requestBody,
     responseType |-> IF Truthy(Get(requestBody, "stream"))
                      THEN "stream" ELSE "json",
     timeout |-> IF Truthy(Get(requestBody, "stream"))
                 THEN 0 ELSE BufferedTimeoutMs]

\* Lines 363-382 with the timeout of line 382 applied to every call.
AxiosConfigAlwaysTimed(originalRequest, downstreamUrl, apiKey, requestBody) ==
    [method |-> originalRequest.method,
     url |-> downstreamUrl,
     headers |-> [h \in {"Content-Type", "Authorization"} |->
                    IF h = "Content-Type" THEN <<"application/json">>
                    ELSE <<"Bearer ">> \o apiKey.v],
     data |-> requestBody,
     responseType |-> IF Truthy(Get(requestBody, "stream"))
                      THEN "stream" ELSE "json",
     timeout |-> BufferedTimeoutMs]

AxiosConfig(originalRequest, downstreamUrl, apiKey, requestBody) ==
    [method |-> originalRequest.method,
     url |-> downstreamUrl,
     headers |-> [h \in {"Content-Type", "Authorization"} |->
                    IF h = "Content-Type" THEN <<"application/json">>
                    ELSE <<"Bearer ">> \o apiKey.v],
     data |-> requestBody,
     responseType |-> IF Truthy(Get(requestBody, "stream"))
                      THEN "stream" ELSE "json",
     timeout |-> IF Truthy(Get(requestBody, "stream"))
                 THEN 0 ELSE BufferedTimeoutMs]

\* No call made yet.
NoConfig == [method |-> "", url |-> <<>>, headers |-> NoHeaders,
             data |-> EmptyObject, responseType |-> "", timeout |-> 0]

(***************************************************************************)
(* What the upstream provider and the transport can do to one call.        *)
(*   kind "response"        axios resolves (a 2xx status)                  *)
(*   kind "error_response"  axios rejects with an AxiosError carrying the  *)
(*                          upstream's non-2xx response                    *)
(*   kind "no_response"     axios rejects with an AxiosError without a     *)
(*                          response (network failure, timeout)            *)
(*   kind "other"           anything else thrown                           *)
(***************************************************************************)
\* A header value axios reports as null.
NullHeader == "<null>"

UpstreamHeaders ==
    { NoHeaders,
      [h \in {"content-type", "connection"} |->
         IF h = "content-type" THEN "application/json" ELSE "close"],
      [h \in {"content-type", "cache-control", "connection", "x-request-id",
              "x-unset"} |->
         CASE h = "content-type" -> "text/event-stream; charset=utf-8"
           [] h = "cache-control" -> "no-store"
           [] h = "connection" -> ""
           [] h = "x-request-id" -> "req-1"
           [] OTHER -> NullHeader] }

\* Bodies a JSON-mode call can deliver: an object, the empty string of an
\* empty body, and the JSON texts null and false.
JsonBodies == { [id |-> Str(<<"cmpl-1">>)], Str(<<>>), Null, Bool(FALSE) }

BodiesFor(config) ==
    IF config.responseType = "stream"
    THEN { StreamOf("upstream") } ELSE JsonBodies

SuccessStatuses == {200}
ErrorStatuses == {429, 503}

Outcome(kind, status, data, headers, message) ==
    [kind |-> kind, status |-> status, data |-> data, headers |-> headers,
     message |-> message]

NoOutcome == Outcome("none", 0, Undefined, NoHeaders, <<>>)

Outcomes(config) ==
    { Outcome("response", s, d, h, <<>>) :
        s \in SuccessStatuses, d \in BodiesFor(config), h \in UpstreamHeaders }
    \cup
    { Outcome("error_response", s, d, h,
              <<"Request failed with status code ", ToString(s)>>) :
        s \in ErrorStatuses, d \in BodiesFor(config), h \in UpstreamHeaders }
    \cup
    { Outcome("no_response", 0, Undefined, NoHeaders, m) :
        m \in {<<"Network Error">>}
              \cup (IF config.timeout > 0
                    THEN {<<"timeout of ", ToString(config.timeout), "ms exceeded">>}
                    ELSE {}) }
    \cup
    { Outcome("other", 0, Undefined, NoHeaders, <<"Unexpected error">>) }

ForwardResult(status, data, headers) ==
    [status |-> status, data |-> data, headers |-> headers]

NoResult == ForwardResult(0, Undefined, NoHeaders)

\* Lines 384-416: what proxyLlmRequest returns for an outcome of the call.
ProxyLlmResultAs502(outcome) ==
    IF outcome.kind = "response"
    THEN ForwardResult(outcome.status, outcome.data, outcome.headers)
    ELSE ForwardResult(502,
           [error |-> Str(<<"Bad gateway">>), details |-> Str(outcome.message)],
           outcome.headers)

ProxyLlmResult(outcome) ==
    CASE outcome.kind = "response" ->
           ForwardResult(outcome.status, outcome.data, outcome.headers)
      [] outcome.kind \in {"error_response", "no_response"} ->
           LET hasResponse == outcome.kind = "error_response" IN
           ForwardResult(
             IF hasResponse /\ outcome.status # 0 THEN outcome.status ELSE 500,
             IF hasResponse /\ Truthy(outcome.data) THEN outcome.data
             ELSE [error |-> Str(<<"Error proxying request">>),
                   details |-> Str(outcome.message)],
             IF hasResponse THEN outcome.headers ELSE NoHeaders)
      [] OTHER ->
           ForwardResult(500,
             [error |-> Str(<<"Unexpected error during proxying">>),
              details |-> Str(outcome.message)],
             NoHeaders)

\* Where control goes when the call has settled (lines 386-416): the result
\* is returned; there is no second call.
AfterCallRetrying(outcome) ==
    IF outcome.kind = "response" THEN "returned" ELSE "resolved"

AfterCall(outcome) == "returned"

(***************************************************************************)
(* modelProxyController.ts: relaying the result                            *)
(***************************************************************************)
\* Lines 88-96 (229-236): the upstream headers whose value is neither
\* undefined nor null.
CopiedHeaders(result) ==
    [h \in {k \in DOMAIN result.headers : result.headers[k] # NullHeader} |->
       result.headers[h]]

\* Lines 102-110 with the three headers set whatever the response holds.
WithDefaultHeaderOverwriting(headers, name, value) ==
    [h \in DOMAIN headers \cup {name} |->
       IF h = name THEN value ELSE headers[h]]

\* Lines 102-110: a header is set when !res.getHeader(name), that is when
\* the response has none yet or holds the empty string for it.
WithDefaultHeader(headers, name, value) ==
    IF name \in DOMAIN headers /\ headers[name] # "" THEN headers
    ELSE [h \in DOMAIN headers \cup {name} |->
            IF h = name THEN value ELSE headers[h]]

HasPipe(data) == IsScalar(data) /\ data.t = "stream"

\* Lines 98-127 of handleProxyRequest.
Relay(body, result) ==
    LET isStreaming == \/ Truthy(Get(DownstreamBody(body), "stream"))
                       \/ Truthy(Get(body, "stream"))
        headers == CopiedHeaders(result)
    IN IF isStreaming /\ Truthy(result.data) /\ HasPipe(result.data)
       THEN PipedResponse(result.status,
              WithDefaultHeader(
                WithDefaultHeader(
                  WithDefaultHeader(headers, "content-type", "text/event-stream"),
                  "cache-control", "no-cache"),
                "connection", "keep-alive"),
              result.data)
       ELSE JsonResponse(result.status, headers, result.data)

\* middleware/errorHandler.ts lines 28-49, for an error that is not
\* operational (here: the TypeError of serialising a live stream).
GlobalErrorResponse(environment, headers) ==
    IF <<"NODE_ENV">> \in DOMAIN environment
       /\ environment[<<"NODE_ENV">>] = <<"development">>
    THEN JsonResponse(500, headers,
           [status |-> Str(<<"error">>),
            message |-> Str(<<"Converting circular structure to JSON">>),
            stack |-> Str(<<"TypeError: ...">>)])
    ELSE JsonResponse(500, headers,
           [status |-> Str(<<"error">>),
            message |-> Str(<<"Something went very wrong!">>)])

(***************************************************************************)
(* The top-level error handler, app.use((err, req, res, next) => ...) of   *)
(* index.ts lines 47-49, in its two versions: middleware/errorHandler.ts   *)
(* (reading statusCode and isOperational off the error) and the one built  *)
(* on utils/errorUtils.ts (AppError, StandardErrorResponse).               *)
(***************************************************************************)
\* An error handed to next(): whether it is an AppError, its name, message
\* and stack, its statusCode (0 when it has none) and its isOperational
\* field, and the details an AppError carries.
ErrorOf(isAppError, name, message, statusCode, isOperational) ==
    [isAppError |-> isAppError, name |-> name, message |-> message,
     stack |-> Str(<<name, ": ", "at handler (/app/dist/index.js)">>),
     statusCode |-> statusCode, isOperational |-> isOperational,
     details |-> Undefined]

GenericMessage == Str(<<"Something went very wrong!">>)

IsDevelopment(environment) ==
    /\ <<"NODE_ENV">> \in DOMAIN environment
    /\ environment[<<"NODE_ENV">>] = <<"development">>

\* errorHandler.ts with the development answer given in every mode.
globalErrorHandlerLeaking(err, environment) ==
    LET statusCode == IF err.statusCode # 0 THEN err.statusCode ELSE 500
        message == IF Truthy(err.message) THEN err.message
                   ELSE Str(<<"Internal Server Error">>)
    IN IF Truthy(err.isOperational)
       THEN JsonResponse(statusCode, NoHeaders,
              [status |-> Str(<<"error">>), message |-> message])
       ELSE JsonResponse(statusCode, NoHeaders,
              [status |-> Str(<<"error">>), message |-> message,
               stack |-> err.stack,
               error |-> [statusCode |-> Num(statusCode)]])

\* middleware/errorHandler.ts lines 8-51.
globalErrorHandler(err, environment) ==
    LET statusCode == IF err.statusCode # 0 THEN err.statusCode ELSE 500
        message == IF Truthy(err.message) THEN err.message
                   ELSE Str(<<"Internal Server Error">>)
    IN IF Truthy(err.isOperational)
       THEN JsonResponse(statusCode, NoHeaders,
              [status |-> Str(<<"error">>), message |-> message])
       ELSE IF IsDevelopment(environment)
       THEN JsonResponse(statusCode, NoHeaders,
              [status |-> Str(<<"error">>), message |-> message,
               stack |-> err.stack,
               error |-> [statusCode |-> Num(statusCode)]])
       ELSE JsonResponse(500, NoHeaders,
              [status |-> Str(<<"error">>), message |-> GenericMessage])

\* The classification of the errorUtils version, lines 10-30: an AppError
\* says itself whether it is operational; of the other errors those named
\* ValidationError or CastError are, with status 400.
OperationalNames == { "ValidationError", "CastError" }

StandardIsOperational(err) ==
    IF err.isAppError THEN Truthy(err.isOperational)
    ELSE err.name \in OperationalNames

StandardStatusCode(err) ==
    IF err.isAppError THEN err.statusCode
    ELSE IF err.name \in OperationalNames THEN 400 ELSE 500

\* The errorUtils version of the handler, lines 4-74.
globalErrorHandlerStandard(err, environment) ==
    LET statusCode == StandardStatusCode(err)
        message == IF err.isAppError \/ Truthy(err.message) THEN err.message
                   ELSE Str(<<"Internal Server Error">>)
    IN IF StandardIsOperational(err)
       THEN JsonResponse(statusCode, NoHeaders,
              IF Truthy(err.details)
              THEN [error |-> message, statusCode |-> Num(statusCode),
                    details |-> err.details]
              ELSE [error |-> message, statusCode |-> Num(statusCode)])
       ELSE IF IsDevelopment(environment)
       THEN JsonResponse(statusCode, NoHeaders,
              [error |-> message, statusCode |-> Num(statusCode),
               message |-> err.message,
               details |-> [stack |-> err.stack, name |-> Str(<<err.name>>)]])
       ELSE JsonResponse(500, NoHeaders,
              [error |-> GenericMessage, statusCode |-> Num(500)])

\* Lines 229-239 of proxyRerank: res.status(result.status).json(result.data)
\* whatever the data is.  JSON.stringify of a live stream either throws (the
\* catch hands the error to the global handler) or yields the object's own
\* enumerable fields; `serialises` says which.
RerankRelay(environment, result, serialises) ==
    LET headers == CopiedHeaders(result) IN
    IF HasPipe(result.data)
    THEN IF serialises
         THEN JsonResponse(result.status, headers,
                           [_readableState |-> Str(<<"...">>)])
         ELSE GlobalErrorResponse(environment, headers)
    ELSE JsonResponse(result.status, headers, result.data)

(***************************************************************************)
(* modelProxyController.ts lines 98-123: the piped relay, chunk by chunk.  *)
(* The upstream body is a readable stream (axios, responseType 'stream');  *)
(* the response is the writable it is piped into.                          *)
(***************************************************************************)
\* Chunks an upstream emits before it ends or fails, at most.
MaxChunks == 2

\* What an upstream emits: server-sent events.
Chunks == { "data: a", "data: b" }

\* The readable.  It is created paused ("readable"), flows once piped, is
\* paused by back-pressure or by losing its destination, and is destroyed by
\* its own error or by a call of destroy().
Source(state, emitted) == [state |-> state, emitted |-> emitted]

NoSource == Source("none", <<>>)

\* The response as the caller sees it: the status code set on it, whether
\* the head went out and with which status, the body written, whether it
\* was ended.
NoWire ==
    [statusCode |-> 0, headersSent |-> FALSE, sentStatus |-> 0, body |-> <<>>,
     ended |-> FALSE]

\* res.write(chunk): the first write sends the head.
Write(w, chunk) ==
    [w EXCEPT !.headersSent = TRUE,
              !.sentStatus = IF w.headersSent THEN @ ELSE w.statusCode,
              !.body = Append(@, chunk)]

\* res.end().
End(w) ==
    [w EXCEPT !.headersSent = TRUE,
              !.sentStatus = IF w.headersSent THEN @ ELSE w.statusCode,
              !.ended = TRUE]

\* Line 123, result.data.pipe(res): each 'data' event is written to the
\* response as it comes.
OnDataHolding(w, chunk) == w

OnData(w, chunk) == Write(w, chunk)

\* Line 123: 'end' of the source ends the response.
OnEnd(w) == End(w)

StreamErrorBody == [error |-> Str(<<"Stream error occurred">>)]

\* Lines 114-121: the 'error' listener answers only while the head has not
\* gone out.
OnStreamErrorUnguarded(w) ==
    [w EXCEPT !.statusCode = 500, !.headersSent = TRUE, !.sentStatus = 500,
              !.body = Append(@, StreamErrorBody), !.ended = TRUE]

OnStreamError(w) ==
    IF ~w.headersSent
    THEN End(Write([w EXCEPT !.statusCode = 500], StreamErrorBody))
    ELSE w

\* Line 123: when the response closes under the pipe, the pipe detaches the
\* source (unpipe) and the source, left without a destination, is paused.
\* Nothing in lines 98-123 calls destroy() on it.
OnClose(s) ==
    IF s.state \in {"flowing", "paused"} THEN Source("paused", s.emitted) ELSE s

(***************************************************************************)
(* crawlerService.ts lines 26-179: CrawlerService.launchCrawl.  The site   *)
(* crawled, the converter and the vector store are the environment.       *)
(***************************************************************************)
\* PlaywrightCrawler options, lines 63-68.
MaxConcurrency == 5
MaxRequestRetries == 1

\* The pages of the site and the links each one carries.
Urls == { "http://site.local/", "http://site.local/a", "http://site.local/b",
          "http://site.local/a/c" }

StartUrl == "http://site.local/"

LinksOf(url) ==
    CASE url = "http://site.local/" ->
           { "http://site.local/a", "http://site.local/b" }
      [] url = "http://site.local/a" ->
           { "http://site.local/a/c", "http://site.local/" }
      [] url = "http://site.local/b" -> { "http://site.local/a" }
      [] OTHER -> {}

\* new URL(url).pathname, lines 80 and 162.
Pathname(url) ==
    CASE url = "http://site.local/" -> <<Slash>>
      [] url = "http://site.local/a" -> <<Slash, "a">>
      [] url = "http://site.local/b" -> <<Slash, "b">>
      [] OTHER -> <<Slash, "a", Slash, "c">>

\* page.title() and the snippet of document.body.innerText, lines 78-84.
TitleOf(url) == Str(<<"Title of ">> \o Pathname(url))
SnippetOf(url) == Str(<<"Text of ">> \o Pathname(url))

\* CrawlerOptions, lines 20-24, as the controller can pass them.
DepthLimits == { -1, 0, 2 }
RequestLimits == { 1, 3 }

CrawlerOptions(startUrl, maxDepth, maxRequests) ==
    [startUrl |-> startUrl, maxDepth |-> maxDepth, maxRequests |-> maxRequests]

NoOptions == CrawlerOptions("", 0, 0)

\* this.vectorStore, lines 30-48: undefined without OPENAI_API_KEY, else a
\* store holding the documents added so far.
NoVectorStore == [initialized |-> FALSE, added |-> <<>>]
EmptyVectorStore == [initialized |-> TRUE, added |-> <<>>]

\* A request of the crawler: url, userData.depth, retryCount, errorMessages,
\* and whether a navigation to it ever succeeded.
CrawlRequest(url, depth, retryCount, errorMessages, loaded) ==
    [url |-> url, depth |-> depth, retryCount |-> retryCount,
     errorMessages |-> errorMessages, loaded |-> loaded]

\* Line 169.
StartRequest(startUrl) == CrawlRequest(startUrl, 0, 0, <<>>, FALSE)

\* The markdown the converter makes of a page: the empty text for the page
\* that holds no text.
MarkdownOf(url) ==
    IF url = "http://site.local/b" THEN Str(<<>>)
    ELSE Str(<<"# ">> \o Pathname(url))

\* How the conversion call of lines 89-102 can settle: response.data is the
\* converter's text, or the call fails.
ConversionResults(url) ==
    { [ok |-> TRUE, data |-> MarkdownOf(url)],
      [ok |-> FALSE, data |-> Str(<<"Markitdown service unavailable">>)] }

ConvertErrorPrefix == "Failed to convert HTML to Markdown: "
VectorErrorPrefix == "Failed to add to vector store: "
VectorErrorMessage == "Vector store failed"
CrawlErrorPrefix == "Failed to crawl: "

\* Lines 86-104: the record built for a page that was read.
PageDataDroppingTitle(url, conversion) ==
    [url |-> url, path |-> Str(Pathname(url)),
     title |-> IF conversion.ok THEN TitleOf(url) ELSE Undefined,
     bodySnippet |-> SnippetOf(url),
     markdownContent |-> IF conversion.ok THEN conversion.data ELSE Undefined,
     error |-> IF conversion.ok THEN Undefined
               ELSE Str(<<ConvertErrorPrefix>> \o conversion.data.v)]

PageData(url, conversion) ==
    [url |-> url, path |-> Str(Pathname(url)), title |-> TitleOf(url),
     bodySnippet |-> SnippetOf(url),
     markdownContent |-> IF conversion.ok THEN conversion.data ELSE Undefined,
     error |-> IF conversion.ok THEN Undefined
               ELSE Str(<<ConvertErrorPrefix>> \o conversion.data.v)]

\* Line 108: whether the page is handed to the vector store.
ShouldIndex(store, pageData) ==
    store.initialized /\ Truthy(pageData.markdownContent)

\* Line 110: the document added.
DocumentOf(pageData) ==
    [pageContent |-> pageData.markdownContent,
     metadata |-> [url |-> pageData.url, title |-> pageData.title,
                   path |-> pageData.path]]

\* Lines 113-121: a failure of addDocuments is written into the record.
WithVectorError(pageData, message) ==
    IF Truthy(pageData.error)
    THEN [pageData EXCEPT
            !.error = Str(@.v \o <<"; ", VectorErrorPrefix, message>>)]
    ELSE [pageData EXCEPT !.error = Str(<<VectorErrorPrefix, message>>)]

\* Lines 138-145, transformRequestFunction: a link is kept, one level
\* deeper, while fewer than maxRequests records are collected.
TransformRequestUnlimited(url, currentDepth, collected, maxRequests) ==
    { CrawlRequest(url, currentDepth + 1, 0, <<>>, FALSE) }

TransformRequest(url, currentDepth, collected, maxRequests) ==
    IF Len(collected) < maxRequests
    THEN { CrawlRequest(url, currentDepth + 1, 0, <<>>, FALSE) }
    ELSE {}

\* errorMessages.join(', '), line 155.
RECURSIVE JoinMessages(_)
JoinMessages(messages) ==
    IF messages = <<>> THEN <<>>
    ELSE IF Len(messages) = 1 THEN <<messages[1]>>
    ELSE <<messages[1], ", ">> \o JoinMessages(Tail(messages))

\* Lines 154-165: the record of a request that failed for good.
ErrorDataWithTitle(request) ==
    [url |-> request.url, path |-> Str(Pathname(request.url)),
     title |-> TitleOf(request.url),
     error |-> Str(<<CrawlErrorPrefix>> \o JoinMessages(request.errorMessages))]

ErrorData(request) ==
    [url |-> request.url, path |-> Str(Pathname(request.url)),
     error |-> Str(<<CrawlErrorPrefix>> \o
                   (IF JoinMessages(request.errorMessages) = <<>>
                    THEN <<"Unknown error">>
                    ELSE JoinMessages(request.errorMessages)))]

\* What the crawler notes on a request when an attempt at it fails.
AttemptError == "Attempt failed"

(***************************************************************************)
(* Inbound requests                                                        *)
(***************************************************************************)
\* routes: router.post('/chat/completions' | '/completions' | '/embeddings'
\* | '/rerank').
EndpointPaths ==
    { <<Slash, "chat", Slash, "completions">>, <<Slash, "completions">>,
      <<Slash, "embeddings">>, RerankEndpoint }

\* A key an enumerated body leaves out.
Absent == [absent |-> TRUE]

ModelValues ==
    { Absent, Str(<<>>), Num(5),
      Str(<<"x", Slash, "y", Slash, "openai", Slash, "gpt-4">>),
      Str(<<"x", Slash, "y", Slash, "cohere", Slash, "rerank-v3">>),
      Str(<<"x", Slash, "y", Slash, "Cohere", Slash, "rerank-v3">>),
      Str(<<"x", Slash, "y", Slash, "acme", Slash, "m1">>),
      Str(<<"x", Slash, "y", Slash, "anthropic", Slash, "claude-3">>),
      Str(<<"x", Slash, "y", Slash, "google", Slash, "gemini-pro">>),
      Str(<<"x", Slash, "y", Slash, "gemini", Slash, "gemini-pro">>),
      Str(<<"openai", Slash, "gpt-4">>),
      Str(<<"a", Slash, Slash, "c", Slash, "d">>),
      Str(<<"x", Slash, "y", Slash, "openai", Slash, "ft", Slash, "gpt-4">>) }

KeyLocations ==
    { Absent, Str(<<>>), Str(<<EnvPrefix, "FOO">>), Str(<<EnvPrefix, "BAR">>),
      Str(<<"vault:", "FOO">>) }

ApiBases ==
    { Absent, Str(<<"http://llm.local/v1">>),
      Str(<<"http://llm.local/v1", Slash>>) }

\* An object holding the given keys, those whose value is Absent left out.
Object(fields) ==
    [k \in {f \in DOMAIN fields : fields[f] # Absent} |-> fields[k]]

PropertyValues ==
    { Absent } \cup
    { Object([apiKeyLocation |-> l, apiBase |-> b]) :
        l \in KeyLocations, b \in ApiBases }

StreamValues == { Absent, Bool(TRUE), Bool(FALSE) }
PromptValues == { Absent, Str(<<"Hello">>) }

Bodies ==
    { Object([model |-> m, calliopeProperties |-> p, stream |-> s, prompt |-> q]) :
        m \in ModelValues, p \in PropertyValues, s \in StreamValues,
        q \in PromptValues }

\* The caller's own bearer token (checked for presence by the auth
\* middleware, never resolved).
ClientTokens == { <<"Bearer ", "client-token-a">>, <<"Bearer ", "client-token-b">> }

Requests ==
    [method : {"POST"}, path : EndpointPaths,
     headers : { [h \in {"authorization"} |-> t] : t \in ClientTokens },
     body : Bodies]

\* process.env as the server was started with.
Environments ==
    { [n \in {<<"FOO">>} |-> <<"sk-live-1">>],
      [n \in {<<"FOO">>, <<"BAR">>, <<"NODE_ENV">>} |->
         CASE n = <<"FOO">> -> <<"sk-live-2">>
           [] n = <<"BAR">> -> <<>>
           [] OTHER -> <<"development">>] }

(***************************************************************************)
(* State                                                                   *)
(***************************************************************************)
VARIABLES
    env,            \* process.env
    req,            \* the inbound request being handled
    pc,             \* where its handler is
    parsedModel,    \* handler local
    apiKey,         \* handler local
    downstreamUrl,  \* handler local
    outbound,       \* the configuration of the last axios call
    upstream,       \* how that call settled
    result,         \* what proxyLlmRequest returned
    res,            \* the response written to the caller
    attempts,       \* axios calls made for this request
    keyLookups,     \* getApiKey calls made for this request
    served,         \* requests received so far
    prev,           \* what is remembered of the request before this one
    source,         \* the upstream body being piped (result.data)
    wire,           \* the piped response as the caller sees it
    client,         \* the inbound connection: "connected" or "gone"
    logged,         \* console.error calls of the stream 'error' listener
    options,        \* launchCrawl: { startUrl, maxDepth, maxRequests }
    queue,          \* launchCrawl: the crawler's request queue
    tasks,          \* launchCrawl: the page handlers in flight
    collectedData,  \* launchCrawl: the records collected
    handled,        \* launchCrawl: requests the crawler has finished with
    documents,      \* launchCrawl: what was added to the vector store
    crawlPc,        \* launchCrawl: "idle", "running", "returned" or "raised"
    history,        \* launchCrawl: per record, what the observer noted
    earlier,        \* what the launchCrawl calls before this one left behind
    instances,      \* MCPClientService.instances: url -> service object
    clients,        \* the SDK Client objects created so far
    invocations,    \* the connect / callTool calls made so far
    handles,        \* what each getInstance call returned
    call            \* the last direct call of an exported function

streamVars == <<source, wire, client, logged>>

crawlVars == <<options, queue, tasks, collectedData, handled, documents,
               crawlPc, history, earlier>>

mcpVars == <<instances, clients, invocations, handles>>

proxyVars == <<env, req, pc, parsedModel, apiKey, downstreamUrl, outbound,
               upstream, result, res, attempts, keyLookups, served, prev>>

vars == <<proxyVars, streamVars, crawlVars, mcpVars, call>>

locals == <<parsedModel, apiKey, downstreamUrl, outbound, upstream, result,
            attempts, keyLookups>>

isRerank == req.path = RerankEndpoint

NoPrev == [kind |-> "none", outbound |-> NoConfig, res |-> NoResponse]

\* A handler starts with nothing computed and nothing written.
FreshHandler ==
    /\ pc' = "received"
    /\ parsedModel' = NotParsed
    /\ apiKey' = Null
    /\ downstreamUrl' = <<>>
    /\ outbound' = NoConfig
    /\ upstream' = NoOutcome
    /\ result' = NoResult
    /\ res' = NoResponse
    /\ attempts' = 0
    /\ keyLookups' = 0

\* Nothing is being piped.
NoRelay ==
    /\ source = NoSource
    /\ wire = NoWire
    /\ client = "connected"
    /\ logged = 0

\* The process has made no launchCrawl call yet: its default request queue
\* holds nothing.
NoEarlier == [crawls |-> 0, handled |-> {}]

\* No crawl was launched.
NoCrawl ==
    /\ options = NoOptions
    /\ queue = {}
    /\ tasks = {}
    /\ collectedData = <<>>
    /\ handled = {}
    /\ documents = NoVectorStore
    /\ crawlPc = "idle"
    /\ history = <<>>
    /\ earlier = NoEarlier

\* No MCP service object exists and no exported function was called.
NoMcp ==
    /\ instances = <<>>
    /\ clients = <<>>
    /\ invocations = <<>>
    /\ handles = <<>>

NoCall == [fn |-> "none", done |-> FALSE]

Init ==
    /\ NoRelay
    /\ NoCrawl
    /\ NoMcp
    /\ call = NoCall
    /\ env \in Environments
    /\ req \in Requests
    /\ pc = "received"
    /\ parsedModel = NotParsed
    /\ apiKey = Null
    /\ downstreamUrl = <<>>
    /\ outbound = NoConfig
    /\ upstream = NoOutcome
    /\ result = NoResult
    /\ res = NoResponse
    /\ attempts = 0
    /\ keyLookups = 0
    /\ served = 1
    /\ prev = NoPrev

\* The handler answers and carries on: the `return` is missing.
RejectWithoutReturn(response) ==
    /\ res' = response
    /\ pc' = pc

\* The handler answers and returns.
Reject(response) ==
    /\ res' = response
    /\ pc' = "rejected"

(***************************************************************************)
(* The handler, step by step (handleProxyRequest and proxyRerank)          *)
(***************************************************************************)
\* Lines 8-23 (148-163).
Validate ==
    /\ pc = "received"
    /\ IF CheckPresence(req.body) # NoResponse
       THEN Reject(CheckPresence(req.body))
       ELSE pc' = "validated" /\ UNCHANGED res
    /\ UNCHANGED <<streamVars, crawlVars, mcpVars, call>>
    /\ UNCHANGED <<env, req, locals, served, prev>>

\* Lines 25-33 (165-173).
ParseModel ==
    /\ pc = "validated"
    /\ parsedModel' = parseModelString(req.body["model"])
    /\ IF ~parsedModel'.isValid
       THEN Reject(InvalidModelResponse(parsedModel', req.body["model"]))
       ELSE pc' = "parsed" /\ UNCHANGED res
    /\ UNCHANGED <<streamVars, crawlVars, mcpVars, call>>
    /\ UNCHANGED <<env, req, apiKey, downstreamUrl, outbound, upstream, result,
                   attempts, keyLookups, served, prev>>

\* Lines 175-186, proxyRerank only.
CheckCapability ==
    /\ pc = "parsed"
    /\ isRerank
    /\ IF RerankGate(parsedModel) # NoResponse
       THEN Reject(RerankGate(parsedModel))
       ELSE pc' = "capable" /\ UNCHANGED res
    /\ UNCHANGED <<streamVars, crawlVars, mcpVars, call>>
    /\ UNCHANGED <<env, req, locals, served, prev>>

\* Lines 35-39 (188-192).
ResolveCredential ==
    /\ \/ pc = "parsed" /\ ~isRerank
       \/ pc = "capable"
    /\ apiKey' = getApiKey(env, Get(Properties(req.body), "apiKeyLocation"))
    /\ keyLookups' = keyLookups + 1
    /\ IF ~Truthy(apiKey')
       THEN Reject(KeyFailureResponse(req.body))
       ELSE pc' = "keyed" /\ UNCHANGED res
    /\ UNCHANGED <<streamVars, crawlVars, mcpVars, call>>
    /\ UNCHANGED <<env, req, parsedModel, downstreamUrl, outbound, upstream,
                   result, attempts, served, prev>>

\* Lines 41-75 (194-218).
ResolveEndpoint ==
    /\ pc = "keyed"
    /\ LET base == IF isRerank
                   THEN RerankResolveBase(parsedModel, Properties(req.body))
                   ELSE ResolveBase(parsedModel, Properties(req.body))
       IN IF base = <<>>
          THEN /\ Reject(IF isRerank THEN RerankBaseRequiredResponse(parsedModel)
                         ELSE BaseRequiredResponse(parsedModel))
               /\ UNCHANGED downstreamUrl
          ELSE /\ downstreamUrl' = JoinUrl(base, IF isRerank THEN RerankEndpoint
                                                 ELSE req.path)
               /\ pc' = "resolved"
               /\ UNCHANGED res
    /\ UNCHANGED <<streamVars, crawlVars, mcpVars, call>>
    /\ UNCHANGED <<env, req, parsedModel, apiKey, outbound, upstream, result,
                   attempts, keyLookups, served, prev>>

\* Lines 77-85 (220-227) and proxyLlmRequest lines 363-386: the body is
\* rewritten and the call is issued; the handler awaits it.
Forward ==
    /\ pc = "resolved"
    /\ outbound' = AxiosConfig(req, downstreamUrl, apiKey,
                               RequestBodyForDownstream(req.body, parsedModel))
    /\ attempts' = attempts + 1
    /\ pc' = "forwarded"
    /\ UNCHANGED <<streamVars, crawlVars, mcpVars, call>>
    /\ UNCHANGED <<env, req, parsedModel, apiKey, downstreamUrl, upstream,
                   result, res, keyLookups, served, prev>>

\* proxyLlmRequest lines 386-416: the call settles and a result is returned.
Settle ==
    /\ pc = "forwarded"
    /\ \E outcome \in Outcomes(outbound) :
         /\ upstream' = outcome
         /\ result' = ProxyLlmResult(outcome)
         /\ pc' = AfterCall(outcome)
    /\ UNCHANGED <<streamVars, crawlVars, mcpVars, call>>
    /\ UNCHANGED <<env, req, parsedModel, apiKey, downstreamUrl, outbound, res,
                   attempts, keyLookups, served, prev>>

\* Lines 87-127 of handleProxyRequest.
RelayResult ==
    /\ pc = "returned"
    /\ ~isRerank
    /\ res' = Relay(req.body, result)
    /\ pc' = "relayed"
    /\ UNCHANGED <<streamVars, crawlVars, mcpVars, call>>
    /\ UNCHANGED <<env, req, locals, served, prev>>

\* Lines 229-244 of proxyRerank.
RelayRerankResult ==
    /\ pc = "returned"
    /\ isRerank
    /\ \E serialises \in BOOLEAN :
         /\ res' = RerankRelay(env, result, serialises)
         /\ pc' = IF HasPipe(result.data) /\ ~serialises
                  THEN "errored" ELSE "relayed"
    /\ UNCHANGED <<streamVars, crawlVars, mcpVars, call>>
    /\ UNCHANGED <<env, req, locals, served, prev>>

Finished == pc \in {"rejected", "relayed", "errored"}

(***************************************************************************)
(* The next request.  The server keeps no state between requests; what is  *)
(* remembered in prev is the observer's, to compare two requests.          *)
(***************************************************************************)
\* The same request again, sent with other inbound headers.
SameRequestOtherHeaders ==
    /\ Finished
    /\ served < MaxServed
    /\ \E t \in ClientTokens \ {req.headers["authorization"]} :
         req' = [req EXCEPT !.headers = [h \in {"authorization"} |-> t]]
    /\ prev' = [kind |-> "headers", outbound |-> outbound, res |-> NoResponse]
    /\ served' = served + 1
    /\ FreshHandler
    /\ UNCHANGED <<streamVars, crawlVars, mcpVars, call>>
    /\ UNCHANGED env

\* A key location that is given and that getApiKey cannot resolve.
Unresolvable(location) ==
    /\ location # Absent
    /\ Truthy(location)
    /\ ~Truthy(getApiKey(env, location))

\* The same request again, with another unresolvable apiKeyLocation in
\* place of an unresolvable one.
SameRequestOtherKeyLocation ==
    /\ Finished
    /\ served < MaxServed
    /\ HasProperties(req.body)
    /\ Unresolvable(Get(Properties(req.body), "apiKeyLocation"))
    /\ \E l \in KeyLocations \ {Get(Properties(req.body), "apiKeyLocation")} :
         /\ Unresolvable(l)
         /\ req' = [req EXCEPT !.body["calliopeProperties"]["apiKeyLocation"] = l]
    /\ prev' = [kind |-> "keyLocation", outbound |-> NoConfig, res |-> res]
    /\ served' = served + 1
    /\ FreshHandler
    /\ UNCHANGED <<streamVars, crawlVars, mcpVars, call>>
    /\ UNCHANGED env

Next ==
    \/ Validate
    \/ ParseModel
    \/ CheckCapability
    \/ ResolveCredential
    \/ ResolveEndpoint
    \/ Forward
    \/ Settle
    \/ RelayResult
    \/ RelayRerankResult
    \/ SameRequestOtherHeaders
    \/ SameRequestOtherKeyLocation

Spec == Init /\ [][Next]_vars

(***************************************************************************)
(* handleProxyRequest as one function of the request, the environment and  *)
(* the way the call settles: the response written and the call made.       *)
(***************************************************************************)
HandleProxyRequest(request, environment, endpointPath, outcome) ==
    LET body == request.body
        parsed == parseModelString(Get(body, "model"))
        key == getApiKey(environment, Get(Properties(body), "apiKeyLocation"))
        base == ResolveBase(parsed, Properties(body))
    IN IF CheckPresence(body) # NoResponse
       THEN [res |-> CheckPresence(body), outbound |-> NoConfig]
       ELSE IF ~parsed.isValid
       THEN [res |-> InvalidModelResponse(parsed, body["model"]),
             outbound |-> NoConfig]
       ELSE IF ~Truthy(key)
       THEN [res |-> KeyFailureResponse(body), outbound |-> NoConfig]
       ELSE IF base = <<>>
       THEN [res |-> BaseRequiredResponse(parsed), outbound |-> NoConfig]
       ELSE [res |-> Relay(body, ProxyLlmResult(outcome)),
             outbound |-> AxiosConfig(request, JoinUrl(base, endpointPath), key,
                                      RequestBodyForDownstream(body, parsed))]

\* The steps above compose to that function on the three shared endpoints.
StepsAgreeWithHandler ==
    (Finished /\ ~isRerank) =>
        /\ res = HandleProxyRequest(req, env, req.path, upstream).res
        /\ outbound = HandleProxyRequest(req, env, req.path, upstream).outbound

(***************************************************************************)
(* The piped relay (modelProxyController.ts lines 98-123), followed chunk  *)
(* by chunk from the moment proxyLlmRequest has returned a live stream.    *)
(***************************************************************************)
\* The calls that get as far as the outbound request with stream: true.
StreamedCalls ==
    { c \in [request : Requests, environment : Environments] :
        /\ c.request.path # RerankEndpoint
        /\ c.request.headers["authorization"] = <<"Bearer ", "client-token-a">>
        /\ Get(c.request.body, "stream") = Bool(TRUE)
        /\ HandleProxyRequest(c.request, c.environment, c.request.path,
                              NoOutcome).outbound # NoConfig }

\* The handler at line 87: the call has returned a stream.
InitStream ==
    /\ NoCrawl
    /\ NoMcp
    /\ call = NoCall
    /\ \E c \in StreamedCalls :
         /\ env = c.environment
         /\ req = c.request
         /\ parsedModel = parseModelString(c.request.body["model"])
         /\ apiKey = getApiKey(c.environment,
                               Get(Properties(c.request.body), "apiKeyLocation"))
         /\ downstreamUrl =
              JoinUrl(ResolveBase(parseModelString(c.request.body["model"]),
                                  Properties(c.request.body)),
                      c.request.path)
         /\ outbound = HandleProxyRequest(c.request, c.environment,
                                          c.request.path, NoOutcome).outbound
    /\ upstream \in { o \in Outcomes(outbound) : HasPipe(o.data) }
    /\ result = ProxyLlmResult(upstream)
    /\ pc = "returned"
    /\ res = NoResponse
    /\ attempts = 1
    /\ keyLookups = 1
    /\ served = 1
    /\ prev = NoPrev
    /\ source = Source("readable", <<>>)
    /\ wire = NoWire
    /\ client = "connected"
    /\ logged = 0

streamFixed == <<env, req, parsedModel, apiKey, downstreamUrl, outbound,
                 upstream, result, attempts, keyLookups, served, prev>>

\* Lines 98-123: headers and status are set on the response, the 'error'
\* listener is registered and the stream is piped.
BeginPipe ==
    /\ pc = "returned"
    /\ ~isRerank
    /\ Relay(req.body, result).via = "pipe"
    /\ res' = Relay(req.body, result)
    /\ wire' = [NoWire EXCEPT !.statusCode = result.status]
    /\ source' = Source("flowing", source.emitted)
    /\ pc' = "relayed"
    /\ UNCHANGED <<streamFixed, client, logged, crawlVars, mcpVars,
                   call>>

\* The upstream emits a chunk; the pipe writes it.  When the write reports a
\* full buffer the pipe pauses the source until 'drain'.
UpstreamData ==
    /\ pc = "relayed"
    /\ source.state = "flowing"
    /\ Len(source.emitted) < MaxChunks
    /\ \E chunk \in Chunks, full \in BOOLEAN :
         /\ source' = Source(IF full THEN "paused" ELSE "flowing",
                             Append(source.emitted, chunk))
         /\ wire' = OnData(wire, chunk)
    /\ UNCHANGED <<streamFixed, pc, res, client, logged, crawlVars, mcpVars,
                   call>>

\* 'drain' of the response: the pipe resumes the source.
Drain ==
    /\ pc = "relayed"
    /\ source.state = "paused"
    /\ client = "connected"
    /\ source' = Source("flowing", source.emitted)
    /\ UNCHANGED <<streamFixed, pc, res, wire, client, logged, crawlVars, mcpVars,
                   call>>

\* The upstream body is complete.
UpstreamEnd ==
    /\ pc = "relayed"
    /\ source.state = "flowing"
    /\ source' = Source("ended", source.emitted)
    /\ wire' = OnEnd(wire)
    /\ UNCHANGED <<streamFixed, pc, res, client, logged, crawlVars, mcpVars,
                   call>>

\* The upstream stream fails (lines 114-121).  A response whose connection
\* is gone delivers nothing more to the caller.
UpstreamError ==
    /\ pc = "relayed"
    /\ source.state \in {"flowing", "paused"}
    /\ source' = Source("errored", source.emitted)
    /\ logged' = logged + 1
    /\ wire' = IF client = "connected" THEN OnStreamError(wire) ELSE wire
    /\ UNCHANGED <<streamFixed, pc, res, client, crawlVars, mcpVars,
                   call>>

\* The caller drops the inbound connection while the response is open.
ClientDisconnect ==
    /\ pc = "relayed"
    /\ client = "connected"
    /\ ~wire.ended
    /\ client' = "gone"
    /\ source' = OnClose(source)
    /\ UNCHANGED <<streamFixed, pc, res, wire, logged, crawlVars, mcpVars,
                   call>>

NextStream ==
    \/ BeginPipe
    \/ UpstreamData
    \/ Drain
    \/ UpstreamEnd
    \/ UpstreamError
    \/ ClientDisconnect

SpecStream == InitStream /\ [][NextStream]_vars

(***************************************************************************)
(* CrawlerService.launchCrawl (crawlerService.ts lines 50-179) under the   *)
(* PlaywrightCrawler it configures: up to MaxConcurrency page handlers in  *)
(* flight, a failed attempt retried MaxRequestRetries times and then       *)
(* handed to failedRequestHandler, no request started once maxRequests     *)
(* requests are done with.  A handler is followed from one await to the    *)
(* next; an attempt that throws or exceeds requestHandlerTimeoutSecs is    *)
(* given up at that await.                                                 *)
(***************************************************************************)
\* The service as constructed (lines 30-48), no crawl launched.
InitCrawl ==
    /\ NoRelay
    /\ NoMcp
    /\ call = NoCall
    /\ env = CHOOSE e \in Environments : TRUE
    /\ req = CHOOSE r \in Requests : TRUE
    /\ pc = "received"
    /\ parsedModel = NotParsed
    /\ apiKey = Null
    /\ downstreamUrl = <<>>
    /\ outbound = NoConfig
    /\ upstream = NoOutcome
    /\ result = NoResult
    /\ res = NoResponse
    /\ attempts = 0
    /\ keyLookups = 0
    /\ served = 1
    /\ prev = NoPrev
    /\ options = NoOptions
    /\ queue = {}
    /\ tasks = {}
    /\ collectedData = <<>>
    /\ handled = {}
    /\ documents \in {NoVectorStore, EmptyVectorStore}
    /\ crawlPc = "idle"
    /\ history = <<>>
    /\ earlier = NoEarlier

crawlIdle == <<proxyVars, streamVars, mcpVars, call>>

\* A page handler in flight: its request and the await it is at.
Task(request, at) == [request |-> request, at |-> at]

\* What the observer notes of a record when it is appended.
Noted(by, request, conversion, indexing) ==
    [by |-> by, depth |-> request.depth, attempt |-> request.retryCount,
     loaded |-> request.loaded, conversion |-> conversion,
     indexing |-> indexing, mutations |-> IF indexing = "failed" THEN 1 ELSE 0]

\* The urls the request queue has seen: a url is enqueued once.  The
\* crawler is built without a requestQueue option (lines 57-167), so it
\* works on the default request queue of the process, which keeps what the
\* crawls before this one put into it.
KnownUrls ==
    {r.url : r \in queue} \cup {t.request.url : t \in tasks} \cup handled
        \cup earlier.handled

\* The attempt of a task has failed with the given message.
Errored(t, message) ==
    Task([t.request EXCEPT !.errorMessages = Append(@, message)], "errored")

\* Lines 50-69 and 169-172: the list and the crawler are built anew, the
\* start url is added to the request queue at depth 0 (a url the queue has
\* seen is not added again) and the crawler is run.
Launched(maxDepth, maxRequests) ==
    /\ options' = CrawlerOptions(StartUrl, maxDepth, maxRequests)
    /\ queue' = queue \cup (IF StartUrl \in KnownUrls
                            THEN {} ELSE { StartRequest(StartUrl) })
    /\ tasks' = {}
    /\ collectedData' = <<>>
    /\ handled' = {}
    /\ history' = <<>>
    /\ earlier' = [crawls |-> earlier.crawls + 1,
                   handled |-> earlier.handled \cup handled]
    /\ crawlPc' = "running"

LaunchCrawl ==
    /\ crawlPc = "idle"
    /\ \E maxDepth \in DepthLimits, maxRequests \in RequestLimits :
         Launched(maxDepth, maxRequests)
    /\ UNCHANGED <<documents, crawlIdle>>

\* Line 169 stands outside the try of lines 171-176: when addRequests
\* rejects, launchCrawl rejects and nothing is returned.
AddRequestsRejects ==
    /\ crawlPc = "idle"
    /\ \E maxDepth \in DepthLimits, maxRequests \in RequestLimits :
         options' = CrawlerOptions(StartUrl, maxDepth, maxRequests)
    /\ crawlPc' = "raised"
    /\ earlier' = [earlier EXCEPT !.crawls = @ + 1]
    /\ UNCHANGED <<queue, tasks, collectedData, handled, documents, history,
                   crawlIdle>>

\* The crawler takes a request from the queue and navigates to it (lines
\* 63-68: maxRequestsPerCrawl, maxConcurrency).
Dequeue ==
    /\ crawlPc = "running"
    /\ Cardinality(tasks) < MaxConcurrency
    /\ Cardinality(handled) < options.maxRequests
    /\ \E r \in queue, navigated \in BOOLEAN :
         /\ queue' = queue \ {r}
         /\ tasks' = tasks \cup
              { IF navigated
                THEN Task([r EXCEPT !.loaded = TRUE], "handling")
                ELSE Errored(Task(r, "navigating"), AttemptError) }
    /\ UNCHANGED <<options, collectedData, handled, documents, crawlPc, history,
                   earlier, crawlIdle>>

\* requestHandler, lines 70-124: the depth check, the page read, the
\* conversion, the record appended, the document added.  `indexing` is how
\* the addDocuments call goes when it is made.
RequestHandler ==
    \E t \in tasks :
      /\ t.at = "handling"
      /\ IF t.request.depth > options.maxDepth
         THEN /\ tasks' = tasks \ {t}
              /\ handled' = handled \cup {t.request.url}
              /\ UNCHANGED <<collectedData, documents, history>>
         ELSE \/ /\ tasks' = (tasks \ {t}) \cup {Errored(t, AttemptError)}
                 /\ UNCHANGED <<collectedData, documents, history, handled>>
              \/ \E conversion \in ConversionResults(t.request.url),
                    indexing \in {"none", "added", "failed", "timedOut"} :
                   LET pageData == PageData(t.request.url, conversion)
                       final == IF indexing = "failed"
                                THEN WithVectorError(pageData, VectorErrorMessage)
                                ELSE pageData
                   IN /\ (indexing # "none") = ShouldIndex(documents, pageData)
                      /\ collectedData' = Append(collectedData, final)
                      /\ history' = Append(history,
                            Noted("requestHandler", t.request,
                                  IF conversion.ok THEN "ok" ELSE "failed",
                                  indexing))
                      /\ documents' = IF indexing = "added"
                                      THEN [documents EXCEPT !.added =
                                              Append(@, DocumentOf(pageData))]
                                      ELSE documents
                      /\ IF indexing = "timedOut"
                         THEN /\ tasks' = (tasks \ {t}) \cup
                                             {Errored(t, AttemptError)}
                              /\ UNCHANGED handled
                         ELSE IF t.request.depth < options.maxDepth
                         THEN /\ tasks' = (tasks \ {t}) \cup
                                             {Task(t.request, "enqueueing")}
                              /\ UNCHANGED handled
                         ELSE /\ tasks' = tasks \ {t}
                              /\ handled' = handled \cup {t.request.url}
      /\ UNCHANGED <<options, queue, crawlPc, earlier, crawlIdle>>

\* requestHandler, lines 127-151: enqueueLinks passes every link of the page
\* through transformRequestFunction; the handler returns.
EnqueueLinks ==
    \E t \in tasks :
      /\ t.at = "enqueueing"
      /\ \/ /\ queue' = queue \cup UNION
                 { TransformRequest(url, t.request.depth, collectedData,
                                    options.maxRequests) :
                     url \in LinksOf(t.request.url) \ KnownUrls }
            /\ tasks' = tasks \ {t}
            /\ handled' = handled \cup {t.request.url}
         \/ /\ tasks' = (tasks \ {t}) \cup {Errored(t, AttemptError)}
            /\ UNCHANGED <<queue, handled>>
      /\ UNCHANGED <<options, collectedData, documents, crawlPc, history,
                     earlier, crawlIdle>>

\* Line 66, maxRequestRetries: a failed attempt goes back to the queue.
Retry ==
    \E t \in tasks :
      /\ t.at = "errored"
      /\ t.request.retryCount < MaxRequestRetries
      /\ tasks' = tasks \ {t}
      /\ queue' = queue \cup {[t.request EXCEPT !.retryCount = @ + 1]}
      /\ UNCHANGED <<options, collectedData, handled, documents, crawlPc,
                     history, earlier, crawlIdle>>

\* failedRequestHandler, lines 154-166.
FailedRequestHandler ==
    \E t \in tasks :
      /\ t.at = "errored"
      /\ t.request.retryCount >= MaxRequestRetries
      /\ collectedData' = Append(collectedData, ErrorData(t.request))
      /\ history' = Append(history,
            Noted("failedRequestHandler", t.request, "none", "none"))
      /\ tasks' = tasks \ {t}
      /\ handled' = handled \cup {t.request.url}
      /\ UNCHANGED <<options, queue, documents, crawlPc, earlier, crawlIdle>>

\* A launchCrawl whose catch rethrows.
AfterRunRethrowing(settled) == IF settled = "rejected" THEN "raised" ELSE "returned"

\* Lines 171-178: what launchCrawl does once run() has settled.  A
\* rejection is caught and logged, and the list is returned all the same.
AfterRun(settled) == IF settled = "rejected" THEN "recovered" ELSE "returned"

\* A run() that resolves as soon as the queue is empty or the limit was
\* reached, whatever is in flight.
ReturnCollectedEarly ==
    /\ crawlPc = "running"
    /\ queue = {} \/ Cardinality(handled) >= options.maxRequests
    /\ crawlPc' = AfterRun("resolved")
    /\ UNCHANGED <<options, queue, tasks, collectedData, handled, documents,
                   history, earlier, crawlIdle>>

\* Lines 172-178: run() resolves when no handler is in flight and the queue
\* is empty or the request limit was reached; the list is returned.
ReturnCollected ==
    /\ crawlPc = "running"
    /\ tasks = {}
    /\ queue = {} \/ Cardinality(handled) >= options.maxRequests
    /\ crawlPc' = AfterRun("resolved")
    /\ UNCHANGED <<options, queue, tasks, collectedData, handled, documents,
                   history, earlier, crawlIdle>>

\* Lines 171-176: run() rejects (the crawler itself failed, between two
\* page handlers); the catch logs the error.
RunRejects ==
    /\ crawlPc = "running"
    /\ tasks = {}
    /\ crawlPc' = AfterRun("rejected")
    /\ UNCHANGED <<options, queue, tasks, collectedData, handled, documents,
                   history, earlier, crawlIdle>>

NextCrawl ==
    \/ LaunchCrawl
    \/ AddRequestsRejects
    \/ Dequeue
    \/ RequestHandler
    \/ EnqueueLinks
    \/ Retry
    \/ FailedRequestHandler
    \/ ReturnCollected
    \/ RunRejects

SpecCrawl == InitCrawl /\ [][NextCrawl]_vars

\* The crawl under fair scheduling: the crawler's pool keeps taking requests
\* while it may, every page handler in flight is run to its end (a handler
\* that hangs is cut off by requestHandlerTimeoutSecs and
\* navigationTimeoutSecs, lines 67-68, and counts as a failed attempt), a
\* failed attempt is retried or handed to failedRequestHandler, and run()
\* resolves once it can.  That the start url is added, and that run() ever
\* rejects, is not assumed.
CrawlFairness ==
    /\ WF_vars(Dequeue)
    /\ WF_vars(RequestHandler)
    /\ WF_vars(EnqueueLinks)
    /\ WF_vars(Retry)
    /\ WF_vars(FailedRequestHandler)
    /\ WF_vars(ReturnCollected)

SpecCrawlFair == InitCrawl /\ [][NextCrawl]_vars /\ CrawlFairness

(***************************************************************************)
(* Several launchCrawl calls in one process (SpecCrawls)                   *)
(***************************************************************************)
MaxCrawls == 2

\* part_011 lines 117-125 and crawlerService.ts lines 50-69: a later
\* request makes a new CrawlerService and calls launchCrawl again, once the
\* call before it has settled.
LaunchAgain ==
    /\ crawlPc \in {"returned", "recovered", "raised"}
    /\ earlier.crawls < MaxCrawls
    /\ \E maxDepth \in DepthLimits, maxRequests \in RequestLimits :
         Launched(maxDepth, maxRequests)
    /\ UNCHANGED <<documents, crawlIdle>>

NextCrawls ==
    \/ LaunchCrawl
    \/ AddRequestsRejects
    \/ Dequeue
    \/ RequestHandler
    \/ EnqueueLinks
    \/ Retry
    \/ FailedRequestHandler
    \/ ReturnCollected
    \/ RunRejects
    \/ LaunchAgain

SpecCrawls == InitCrawl /\ [][NextCrawls]_vars

(***************************************************************************)
(* index.ts lines 36-38 and the routers: the routes behind an              *)
(* authentication middleware, and the crawl controller (SpecApi).  The     *)
(* middleware answers 401 or calls next(), which enters the controller of  *)
(* the route.  The controller of /api/crawl is followed through the crawl  *)
(* it awaits; the controllers of /model-proxy/v1 start where Spec starts.  *)
(***************************************************************************)
ApiWeb == <<Slash, "api", Slash, "web">>
ApiCrawl == <<Slash, "api", Slash, "crawl">>
ModelProxyChat ==
    <<Slash, "model-proxy", Slash, "v1", Slash, "chat", Slash, "completions">>
AnalyticsCapture ==
    <<Slash, "proxy", Slash, "analytics", Slash, "w1", Slash, "capture">>

\* apiRoutes.ts line 8: router.use(authenticateToken).
TokenRoutes == { ApiWeb, ApiCrawl }

\* modelProxyRoutes and analyticsRoutes.ts line 27:
\* router.use(authenticateBearerToken).
BearerRoutes == { ModelProxyChat, AnalyticsCapture }

\* middleware/auth, line 4.
RequiredHeaders == <<"key", "timestamp", "v", "extensionversion", "os", "uniqueid">>

\* Lines 7-11: the required headers the request lacks (a header sent with
\* an empty value is falsy as well), in the order of the list.
MissingHeaders(headers) ==
    SelectSeq(RequiredHeaders,
              LAMBDA h : h \notin DOMAIN headers \/ headers[h] = <<>>)

\* authenticateToken with only the key header required.
authenticateTokenKeyOnly(request) ==
    IF "key" \notin DOMAIN request.headers
    THEN JsonResponse(401, NoHeaders,
           [error |-> Str(<<"Unauthorized: Missing required headers: ", "key">>)])
    ELSE NoResponse

\* authenticateToken, lines 3-24: the 401 written, or NoResponse when
\* next() is called.
authenticateToken(request) ==
    IF Len(MissingHeaders(request.headers)) > 0
    THEN JsonResponse(401, NoHeaders,
           [error |-> Str(<<"Unauthorized: Missing required headers: ">> \o
                          JoinMessages(MissingHeaders(request.headers)))])
    ELSE NoResponse

\* authenticateBearerToken, lines 26-42.  A header value is the sequence of
\* its scheme (with the blank that follows it) and its token.
authenticateBearerToken(request) ==
    LET present == "authorization" \in DOMAIN request.headers
        authHeader == IF present THEN request.headers["authorization"] ELSE <<>>
    IN IF authHeader # <<>> /\ Head(authHeader) = "Bearer "
       THEN IF Tail(authHeader) # <<>>
            THEN NoResponse
            ELSE JsonResponse(401, NoHeaders,
                   [error |-> Str(<<"Unauthorized: Bearer token is empty.">>)])
       ELSE JsonResponse(401, NoHeaders,
              [error |-> Str(<<"Unauthorized: Missing or invalid Bearer token in Authorization header.">>)])

\* crawlController, lines 112-113: the defaults.
DefaultLimit == 50
DefaultDepth == 2

\* parseInt(value, 10) of an integer or of its decimal text.
IntegersRead == -1..DefaultLimit

parseInt(value) == CHOOSE n \in IntegersRead : value.v = <<ToString(n)>>

\* Lines 112-113: a falsy limit or maxDepth (left out, or 0) gets the
\* default.
MaxRequestsToCrawl(body) ==
    IF Truthy(Get(body, "limit")) THEN parseInt(body["limit"]) ELSE DefaultLimit

MaximumCrawlDepth(body) ==
    IF Truthy(Get(body, "maxDepth")) THEN parseInt(body["maxDepth"])
    ELSE DefaultDepth

\* Lines 128-132: the PageData made of a record.
ResponseData(collected) ==
    [i \in 1..Len(collected) |->
       [url |-> collected[i].url, path |-> collected[i].path,
        content |-> IF Truthy(Get(collected[i], "markdownContent"))
                    THEN collected[i].markdownContent
                    ELSE IF Truthy(Get(collected[i], "error"))
                    THEN collected[i].error ELSE Str(<<>>)]]

\* What a client sends: any of the required headers, one of them possibly
\* empty, and an Authorization header or none.
HeaderNames == { RequiredHeaders[i] : i \in 1..Len(RequiredHeaders) }

TokenHeaders ==
    { [h \in present |-> <<"1">>] : present \in SUBSET HeaderNames }
    \cup { [h \in HeaderNames |-> IF h = "key" THEN <<>> ELSE <<"1">>] }

AuthorizationValues ==
    { <<>>, <<"Bearer ">>, <<"Bearer ", "client-token-a">>,
      <<"bearer ", "client-token-a">>, <<"Basic ", "dXNlcjpwdw==">>,
      <<"client-token-a">> }

BearerHeaders ==
    { [h \in {"authorization"} |-> a] : a \in AuthorizationValues }

CrawlBodies ==
    { Object([startUrl |-> s, maxDepth |-> d, limit |-> l]) :
        s \in {Absent, Str(<<StartUrl>>)},
        d \in {Absent, Num(0), Num(1)},
        l \in {Absent, Num(2)} }

ApiRequests ==
    [method : {"POST"}, path : {ApiCrawl},
     headers : TokenHeaders \cup BearerHeaders, body : CrawlBodies]
    \cup [method : {"POST"},
          path : {ApiWeb, ModelProxyChat, AnalyticsCapture},
          headers : TokenHeaders \cup BearerHeaders, body : {EmptyObject}]

InitApi ==
    /\ NoRelay
    /\ NoCrawl
    /\ NoMcp
    /\ call = NoCall
    /\ env = CHOOSE e \in Environments : TRUE
    /\ req \in ApiRequests
    /\ pc = "arrived"
    /\ parsedModel = NotParsed
    /\ apiKey = Null
    /\ downstreamUrl = <<>>
    /\ outbound = NoConfig
    /\ upstream = NoOutcome
    /\ result = NoResult
    /\ res = NoResponse
    /\ attempts = 0
    /\ keyLookups = 0
    /\ served = 1
    /\ prev = NoPrev

apiFixed == <<env, req, locals, served, prev, streamVars, mcpVars, call>>

\* The middleware of a route answers 401 and the request is over, or calls
\* next() and the controller is entered.
Guard(answer) ==
    /\ pc = "arrived"
    /\ IF answer # NoResponse
       THEN res' = answer /\ pc' = "unauthorized"
       ELSE pc' = "received" /\ UNCHANGED res
    /\ UNCHANGED <<apiFixed, crawlVars>>

AuthenticateToken ==
    /\ req.path \in TokenRoutes
    /\ Guard(authenticateToken(req))

AuthenticateBearerToken ==
    /\ req.path \in BearerRoutes
    /\ Guard(authenticateBearerToken(req))

\* crawlWebsite, lines 104-125: the 400 for a missing startUrl, or a new
\* CrawlerService (without OPENAI_API_KEY it has no vector store) whose
\* launchCrawl is called with the limits worked out, and awaited.
CrawlWebsite ==
    /\ pc = "received"
    /\ req.path = ApiCrawl
    /\ IF ~Truthy(Get(req.body, "startUrl"))
       THEN /\ res' = BadRequest(
                 [error |-> Str(<<"Missing required parameter: startUrl">>)])
            /\ pc' = "rejected"
            /\ UNCHANGED crawlVars
       ELSE /\ pc' = "launched"
            /\ UNCHANGED <<res, documents>>
            /\ \/ Launched(MaximumCrawlDepth(req.body),
                           MaxRequestsToCrawl(req.body))
               \/ /\ options' = CrawlerOptions(StartUrl,
                                   MaximumCrawlDepth(req.body),
                                   MaxRequestsToCrawl(req.body))
                  /\ crawlPc' = "raised"
                  /\ earlier' = [earlier EXCEPT !.crawls = @ + 1]
                  /\ UNCHANGED <<queue, tasks, collectedData, handled, history>>
    /\ UNCHANGED apiFixed

\* crawlWebsite, lines 125-145: the list launchCrawl returned is answered
\* with 200, a rejection of launchCrawl with 500.
CrawlRespond ==
    /\ pc = "launched"
    /\ crawlPc \in {"returned", "recovered", "raised"}
    /\ IF crawlPc = "raised"
       THEN /\ res' = JsonResponse(500, NoHeaders,
                        [error |-> Str(<<"Crawling failed.">>),
                         message |-> Str(<<"addRequests failed">>),
                         startUrl |-> req.body["startUrl"]])
            /\ pc' = "errored"
       ELSE /\ res' = JsonResponse(200, NoHeaders, ResponseData(collectedData))
            /\ pc' = "relayed"
    /\ UNCHANGED <<apiFixed, crawlVars>>

NextApi ==
    \/ AuthenticateToken
    \/ AuthenticateBearerToken
    \/ CrawlWebsite
    \/ Dequeue
    \/ RequestHandler
    \/ EnqueueLinks
    \/ Retry
    \/ FailedRequestHandler
    \/ ReturnCollected
    \/ RunRejects
    \/ CrawlRespond

SpecApi == InitApi /\ [][NextApi]_vars

(***************************************************************************)
(* mcpClientService.ts: MCPClientService (SpecMcp)                         *)
(***************************************************************************)
MaxHandles == 3
MaxInvocations == 2
MaxDisconnects == 1

ServiceUrls == { "http://mcp-a.local/mcp", "http://mcp-b.local/mcp" }
ToolNames == { "search", "fetch" }

\* A connect() that starts with the SSE transport.
PrimaryTransportSSE == "SSE"

\* Lines 49-50 and 60-61: the transport connect() tries first and the one
\* it falls back to.
PrimaryTransport == "StreamableHTTP"
FallbackTransport == "SSE"

\* A getInstance that makes a new service object on every call.
HasInstanceNever(map, serviceUrl) == FALSE

\* Line 20: this.instances.has(serviceUrl)
HasInstance(map, serviceUrl) == serviceUrl \in DOMAIN map

\* Lines 11-13 and 26-28: a service object as the constructor leaves it; id
\* is the identity of the object, client 0 stands for undefined.
NewService(id, serviceUrl) ==
    [id |-> id, serviceUrl |-> serviceUrl, client |-> 0, isConnected |-> FALSE,
     disconnects |-> 0]

\* new Client(...) together with the transport it is about to connect over.
NewClient(serviceUrl, transport) ==
    [serviceUrl |-> serviceUrl, transport |-> transport, state |-> "connecting"]

\* A service that never takes the connection to be there.
ReadyNever(service) == FALSE

\* Lines 39 and 74: the connection is taken to be there.
Ready(service) == service.isConnected /\ service.client # 0

\* What the server answers to a tool call, in the two shapes of lines 88-92.
ToolResponses(toolName) ==
    { [result |-> [content |-> Str(<<"output of ", toolName>>)]],
      [content |-> Str(<<"output of ", toolName>>)] }

\* Lines 88-92: the `result` member of the response when it has one, the
\* response itself otherwise.
Unwrap(response) ==
    IF "result" \in DOMAIN response THEN response.result ELSE response

NoToolResult == [content |-> Undefined]

\* A connect() or callTool() call on the service object of serviceUrl:
\* where it stands, the clients it has tried to connect, the client its
\* tool call was issued on and the state that client was in, and what the
\* caller found when the call began.
Invocation(op, serviceUrl, toolName, service, concurrent) ==
    [op |-> op, serviceUrl |-> serviceUrl, toolName |-> toolName,
     pc |-> "called", awaiting |-> 0, tried |-> <<>>, usedClient |-> 0,
     issuedOn |-> "none", readyAtStart |-> Ready(service),
     overlapped |-> concurrent, epoch |-> service.disconnects,
     result |-> NoToolResult]

InFlight(i) == invocations[i].pc \notin {"done", "threw"}

\* Lines 19-24.
GetInstance ==
    /\ Len(handles) < MaxHandles
    /\ \E serviceUrl \in ServiceUrls :
         LET made == NewService(Len(handles) + 1, serviceUrl) IN
         /\ instances' = IF HasInstance(instances, serviceUrl)
                         THEN instances
                         ELSE (serviceUrl :> made) @@ instances
         /\ handles' = Append(handles,
               [serviceUrl |-> serviceUrl, id |-> instances'[serviceUrl].id])
    /\ UNCHANGED <<clients, invocations, proxyVars, streamVars, crawlVars, call>>

\* Lines 38-50 and 73-76, up to the first await: connect() returns at once
\* when the connection is there; otherwise it makes a client, stores it in
\* this.client (line 45) and starts connecting over the primary transport.
\* callTool() goes through connect() unless the connection is there.
Invoke ==
    /\ Len(invocations) < MaxInvocations
    /\ \E serviceUrl \in DOMAIN instances, op \in {"connect", "callTool"},
          toolName \in ToolNames :
         LET service == instances[serviceUrl]
             concurrent == \E i \in 1..Len(invocations) :
                              /\ invocations[i].serviceUrl = serviceUrl
                              /\ InFlight(i)
             inv == Invocation(op, serviceUrl, toolName, service, concurrent)
         IN /\ op = "connect" => toolName = "search"
            /\ IF Ready(service)
               THEN /\ invocations' = Append(invocations,
                          [inv EXCEPT !.pc = IF op = "connect" THEN "done"
                                             ELSE "calling",
                                      !.usedClient = IF op = "connect" THEN 0
                                                     ELSE service.client,
                                      !.issuedOn = IF op = "connect" THEN "none"
                                                   ELSE clients[service.client].state])
                    /\ UNCHANGED <<instances, clients>>
               ELSE /\ clients' = Append(clients,
                          NewClient(serviceUrl, PrimaryTransport))
                    /\ instances' = [instances EXCEPT
                          ![serviceUrl].client = Len(clients) + 1]
                    /\ invocations' = Append(invocations,
                          [inv EXCEPT !.pc = "connecting",
                                      !.awaiting = Len(clients) + 1,
                                      !.tried = <<Len(clients) + 1>>])
    /\ UNCHANGED <<handles, proxyVars, streamVars, crawlVars, call>>

\* Lines 78-85, once connect() has returned to callTool: without a client
\* the call throws, with one the tool call is issued on this.client.
Issue(inv, service) ==
    IF inv.op = "connect"
    THEN [inv EXCEPT !.pc = "done", !.awaiting = 0]
    ELSE IF service.client = 0
    THEN [inv EXCEPT !.pc = "threw", !.awaiting = 0]
    ELSE [inv EXCEPT !.pc = "calling", !.awaiting = 0,
                     !.usedClient = service.client,
                     !.issuedOn = clients'[service.client].state]

\* Lines 50-51 and 61-62: client.connect(transport) resolves; isConnected
\* is set and connect() returns.
ConnectResolves ==
    \E i \in 1..Len(invocations) :
      LET inv == invocations[i] IN
      /\ inv.pc = "connecting"
      /\ clients' = [clients EXCEPT ![inv.awaiting].state = "connected"]
      /\ instances' = [instances EXCEPT ![inv.serviceUrl].isConnected = TRUE]
      /\ invocations' = [invocations EXCEPT
            ![i] = Issue(inv, instances'[inv.serviceUrl])]
      /\ UNCHANGED <<handles, proxyVars, streamVars, crawlVars, call>>

\* Lines 53-61: the primary transport failed; the catch makes a second
\* client, stores it in this.client and connects over the fallback.
PrimaryRejects ==
    \E i \in 1..Len(invocations) :
      LET inv == invocations[i] IN
      /\ inv.pc = "connecting"
      /\ Len(inv.tried) = 1
      /\ clients' = Append([clients EXCEPT ![inv.awaiting].state = "failed"],
                           NewClient(inv.serviceUrl, FallbackTransport))
      /\ instances' = [instances EXCEPT
            ![inv.serviceUrl].client = Len(clients) + 1]
      /\ invocations' = [invocations EXCEPT
            ![i] = [inv EXCEPT !.awaiting = Len(clients) + 1,
                               !.tried = Append(@, Len(clients) + 1)]]
      /\ UNCHANGED <<handles, proxyVars, streamVars, crawlVars, call>>

\* Line 61: the fallback failed as well; nothing catches it, and the error
\* leaves connect() (and callTool) with isConnected as it was.
FallbackRejects ==
    \E i \in 1..Len(invocations) :
      LET inv == invocations[i] IN
      /\ inv.pc = "connecting"
      /\ Len(inv.tried) = 2
      /\ clients' = [clients EXCEPT ![inv.awaiting].state = "failed"]
      /\ invocations' = [invocations EXCEPT
            ![i] = [inv EXCEPT !.pc = "threw", !.awaiting = 0]]
      /\ UNCHANGED <<instances, handles, proxyVars, streamVars, crawlVars, call>>

\* Lines 82-92: the tool call settles: with the server's response, of which
\* the result is returned, or with an error, which leaves callTool.  A
\* client that is not connected cannot deliver a response.
ToolCallSettles ==
    \E i \in 1..Len(invocations) :
      LET inv == invocations[i] IN
      /\ inv.pc = "calling"
      /\ \/ /\ clients[inv.usedClient].state = "connected"
            /\ \E response \in ToolResponses(inv.toolName) :
                 invocations' = [invocations EXCEPT
                    ![i] = [inv EXCEPT !.pc = "done",
                                       !.result = Unwrap(response)]]
         \/ invocations' = [invocations EXCEPT ![i].pc = "threw"]
      /\ UNCHANGED <<instances, clients, handles, proxyVars, streamVars,
                     crawlVars, call>>

\* Lines 98-101.  (A call in flight on the service is noted as overlapped
\* by the disconnect.)
Disconnect ==
    \E serviceUrl \in DOMAIN instances :
      /\ instances[serviceUrl].disconnects < MaxDisconnects
      /\ instances' = [instances EXCEPT
            ![serviceUrl].client = 0,
            ![serviceUrl].isConnected = FALSE,
            ![serviceUrl].disconnects = @ + 1]
      /\ invocations' = [i \in 1..Len(invocations) |->
            IF invocations[i].serviceUrl = serviceUrl /\ InFlight(i)
            THEN [invocations[i] EXCEPT !.overlapped = TRUE]
            ELSE invocations[i]]
      /\ UNCHANGED <<clients, handles, proxyVars, streamVars, crawlVars, call>>

InitMcp ==
    /\ NoRelay
    /\ NoCrawl
    /\ NoMcp
    /\ call = NoCall
    /\ env = CHOOSE e \in Environments : TRUE
    /\ req = CHOOSE r \in Requests : TRUE
    /\ pc = "received"
    /\ parsedModel = NotParsed
    /\ apiKey = Null
    /\ downstreamUrl = <<>>
    /\ outbound = NoConfig
    /\ upstream = NoOutcome
    /\ result = NoResult
    /\ res = NoResponse
    /\ attempts = 0
    /\ keyLookups = 0
    /\ served = 1
    /\ prev = NoPrev

NextMcp ==
    \/ GetInstance
    \/ Invoke
    \/ ConnectResolves
    \/ PrimaryRejects
    \/ FallbackRejects
    \/ ToolCallSettles
    \/ Disconnect

SpecMcp == InitMcp /\ [][NextMcp]_vars

(***************************************************************************)
(* Direct calls of parseModelString and getApiKey (SpecUnit)               *)
(***************************************************************************)
MaxSegments == 5

RECURSIVE SeqsUpTo(_, _)
SeqsUpTo(S, n) ==
    IF n = 0 THEN { <<>> }
    ELSE LET shorter == SeqsUpTo(S, n - 1)
         IN shorter \cup { Append(q, x) : q \in {r \in shorter : Len(r) = n - 1},
                                           x \in S }

\* Slash-free segments, the empty one included.
Segments == { <<>>, <<"a">>, <<"b">>, <<"a", "b">> }

\* Every string is the join of its segments: the strings handed to
\* parseModelString are built from one to MaxSegments segments.
SegmentLists == SeqsUpTo(Segments, MaxSegments) \ { <<>> }

\* What a caller may hand over in place of a string.
NonStrings == { Undefined, Null, Num(5) }

\* The descriptors handed to getApiKey.
KeyLocationInputs ==
    { Undefined, Str(<<>>),
      Str(<<EnvPrefix, "FOO">>), Str(<<EnvPrefix, "BAR">>),
      Str(<<EnvPrefix, "BAZ">>), Str(<<EnvPrefix>>),
      Str(<<"vault:", "FOO">>), Str(<<"unsupported:", "FOO">>),
      Str(<<"FOO">>) }

\* A call of an exported function: its argument, the segments the argument
\* was built from (parseModelString), the environment at the call
\* (getApiKey) and, once it has returned, what it returned.
CallOf(fn, arg, built, environment) ==
    [fn |-> fn, arg |-> arg, built |-> built, environment |-> environment,
     done |-> FALSE, returned |-> Undefined]

\* The errors that reach the top-level handler: errors thrown by the
\* runtime or a library (a statusCode or an isOperational field may have
\* been put on them) and the AppErrors of utils/errorUtils.ts lines 28-48.
ErrorMessages == { Str(<<"connect ECONNREFUSED 10.0.0.7:5432">>), Str(<<>>) }

ThrownErrors ==
    { ErrorOf(FALSE, name, message, statusCode, isOperational) :
        name \in {"TypeError", "ValidationError"}, message \in ErrorMessages,
        statusCode \in {0, 503}, isOperational \in {Undefined, Bool(TRUE)} }
    \cup { ErrorOf(TRUE, "Error", message, statusCode, isOperational) :
             message \in ErrorMessages, statusCode \in {400, 500},
             isOperational \in {Bool(TRUE), Bool(FALSE)} }

\* The calls that are made, one in a run.
CallsMade(environment) ==
    { CallOf("parseModelString", Str(Join(parts)), parts, environment) :
        parts \in SegmentLists }
    \cup { CallOf("parseModelString", other, <<>>, environment) :
             other \in NonStrings }
    \cup { CallOf("getApiKey", apiKeyLocation, <<>>, environment) :
             apiKeyLocation \in KeyLocationInputs }
    \cup { CallOf(fn, err, <<>>, environment) :
             fn \in {"globalErrorHandler", "globalErrorHandlerStandard"},
             err \in ThrownErrors }

\* proxyUtils.ts lines 10-54.
CallParseModelString ==
    /\ call.fn = "parseModelString"
    /\ ~call.done
    /\ call' = [call EXCEPT !.done = TRUE,
                            !.returned = parseModelString(call.arg)]
    /\ UNCHANGED <<proxyVars, streamVars, crawlVars, mcpVars>>

\* llmProxyService getApiKey (crawlerService.ts lines 329-347): process.env
\* is read, never written.
CallGetApiKey ==
    /\ call.fn = "getApiKey"
    /\ ~call.done
    /\ call' = [call EXCEPT !.done = TRUE,
                            !.returned = getApiKey(env, call.arg)]
    /\ UNCHANGED <<proxyVars, streamVars, crawlVars, mcpVars>>

\* index.ts lines 47-49 with middleware/errorHandler.ts lines 8-51:
\* process.env is read; the response is written.
CallGlobalErrorHandler ==
    /\ call.fn = "globalErrorHandler"
    /\ ~call.done
    /\ call' = [call EXCEPT !.done = TRUE,
                            !.returned = globalErrorHandler(call.arg, env)]
    /\ UNCHANGED <<proxyVars, streamVars, crawlVars, mcpVars>>

\* The same with the errorUtils version of the handler.
CallGlobalErrorHandlerStandard ==
    /\ call.fn = "globalErrorHandlerStandard"
    /\ ~call.done
    /\ call' = [call EXCEPT !.done = TRUE,
                            !.returned =
                               globalErrorHandlerStandard(call.arg, env)]
    /\ UNCHANGED <<proxyVars, streamVars, crawlVars, mcpVars>>

\* process.env as a server may be started with: the environments of the
\* proxy pipeline, and one in production mode.
UnitEnvironments ==
    Environments \cup
      { [n \in {<<"FOO">>, <<"NODE_ENV">>} |->
           IF n = <<"FOO">> THEN <<"sk-live-1">> ELSE <<"production">>] }

InitUnit ==
    /\ NoRelay
    /\ NoCrawl
    /\ NoMcp
    /\ env \in UnitEnvironments
    /\ call \in CallsMade(env)
    /\ req = CHOOSE r \in Requests : TRUE
    /\ pc = "received"
    /\ parsedModel = NotParsed
    /\ apiKey = Null
    /\ downstreamUrl = <<>>
    /\ outbound = NoConfig
    /\ upstream = NoOutcome
    /\ result = NoResult
    /\ res = NoResponse
    /\ attempts = 0
    /\ keyLookups = 0
    /\ served = 1
    /\ prev = NoPrev

NextUnit ==
    \/ CallParseModelString
    \/ CallGetApiKey
    \/ CallGlobalErrorHandler
    \/ CallGlobalErrorHandlerStandard

SpecUnit == InitUnit /\ [][NextUnit]_vars

(***************************************************************************)
(* Vocabulary of the properties                                            *)
(***************************************************************************)
Called == pc \in {"forwarded", "returned", "relayed", "errored"}
Returned == pc \in {"returned", "relayed", "errored"}

\* The compound model string is well formed: a string of exactly four
\* slash-separated, non-empty segments.
WellFormed(model) ==
    /\ model # Undefined
    /\ model.t = "string"
    /\ Cardinality({i \in 1..Len(model.v) : model.v[i] = Slash}) = 3
    /\ Len(model.v) > 0
    /\ model.v[1] # Slash
    /\ model.v[Len(model.v)] # Slash
    /\ \A i \in 1..(Len(model.v) - 1) :
          ~(model.v[i] = Slash /\ model.v[i + 1] = Slash)

\* What follows the last slash of a string.
AfterLastSlash(s) ==
    LET last == CHOOSE i \in 1..Len(s) :
                    s[i] = Slash /\ \A j \in (i + 1)..Len(s) : s[j] # Slash
    IN SubSeq(s, last + 1, Len(s))

\* The provider segment of a well-formed model string, lower-cased.
ProviderOf(model) == ToLowerCase(Split(model.v)[3])

KeyLocationOf(body) == Get(Properties(body), "apiKeyLocation")

\* The first check, in the order presence - format - capability -
\* credential, that the current request fails; "none" when it passes all.
FirstFailure ==
    CASE ~Truthy(Get(req.body, "model")) -> "model"
      [] Truthy(Get(req.body, "model")) /\ ~HasProperties(req.body) -> "properties"
      [] Truthy(Get(req.body, "model")) /\ HasProperties(req.body)
           /\ ~Truthy(KeyLocationOf(req.body)) -> "keyLocation"
      [] OTHER ->
           IF ~WellFormed(req.body["model"]) THEN "format"
           ELSE IF isRerank /\ ProviderOf(req.body["model"]) # <<"cohere">>
           THEN "capability"
           ELSE IF ~Truthy(getApiKey(env, KeyLocationOf(req.body)))
           THEN "credential"
           ELSE "none"

\* The response is the 400 of the named check.
AnswersFor(check) ==
    /\ res.status = 400
    /\ res.via = "json"
    /\ CASE check = "model" ->
              res.body = [error |-> Str(<<"Missing required parameter: model">>)]
         [] check = "properties" ->
              res.body = [error |-> Str(<<"Missing calliopeProperties in request body">>)]
         [] check = "keyLocation" ->
              res.body = [error |->
                Str(<<"Missing required field: calliopeProperties.apiKeyLocation">>)]
         [] check = "format" ->
              /\ DOMAIN res.body = {"error", "details", "receivedModelString"}
              /\ res.body.error = Str(<<"Invalid model string format.">>)
              /\ res.body.receivedModelString = req.body["model"]
         [] check = "capability" ->
              /\ DOMAIN res.body = {"error", "provider", "supportedProviders"}
              /\ res.body.provider = Str(ProviderOf(req.body["model"]))
              /\ res.body.supportedProviders = <<"cohere">>
         [] check = "credential" ->
              res.body = [error |-> Str(<<"Failed to retrieve API key. Check apiKeyLocation and environment variables.">>)]
         [] OTHER -> FALSE

(***************************************************************************)
(* Properties                                                              *)
(***************************************************************************)
\* C1: for every request that is forwarded, on any of the four endpoints,
\* the body of the outbound call has no calliopeProperties field, its model
\* field is the bare model name (what follows the last slash of the compound
\* string, never the compound string), and it has exactly the other fields
\* of the inbound body, each with its inbound value.
C1_BodySanitized ==
    Called =>
        /\ "calliopeProperties" \notin DOMAIN outbound.data
        /\ outbound.data["model"] = Str(AfterLastSlash(req.body["model"].v))
        /\ outbound.data["model"] # req.body["model"]
        /\ DOMAIN outbound.data = DOMAIN req.body \ {"calliopeProperties"}
        /\ \A k \in DOMAIN req.body \ {"model", "calliopeProperties"} :
              outbound.data[k] = req.body[k]

C1_Witness ==
    /\ Called
    /\ {"model", "calliopeProperties", "stream", "prompt"} \subseteq DOMAIN req.body
    /\ "apiBase" \in DOMAIN req.body["calliopeProperties"]

\* C2: the checks apply in the order presence (model, calliopeProperties,
\* apiKeyLocation) - format - capability (rerank only) - credential - call:
\* a request that fails some check is answered with the 400 of the first
\* check it fails, and no outbound call is ever made for it.
C2_EarliestCheckAnswers ==
    FirstFailure # "none" =>
        /\ attempts = 0
        /\ outbound = NoConfig
        /\ ~Called
        /\ Finished => (pc = "rejected" /\ AnswersFor(FirstFailure))

\* A request failing two checks at once, answered for the earlier one.
C2_Witness ==
    /\ pc = "rejected"
    /\ FirstFailure = "keyLocation"
    /\ ~WellFormed(req.body["model"])
    /\ res.body = [error |->
         Str(<<"Missing required field: calliopeProperties.apiKeyLocation">>)]

\* C3 as stated: on the rerank endpoint a well-formed model string with a
\* provider other than cohere is answered with the provider-not-supported
\* 400 whatever the credential, and no credential lookup is made.
C3_AsStated ==
    (isRerank /\ WellFormed(Get(req.body, "model"))
       /\ ProviderOf(req.body["model"]) # <<"cohere">>) =>
        /\ keyLookups = 0
        /\ Finished => (pc = "rejected" /\ AnswersFor("capability"))

\* C3 as amended: the same for a request that carries calliopeProperties
\* with a non-empty apiKeyLocation (a request without them is answered by
\* the presence check, which comes first), whether that location resolves
\* to a credential or not.
C3_GateBeforeCredential ==
    (isRerank /\ WellFormed(Get(req.body, "model"))
       /\ ProviderOf(req.body["model"]) # <<"cohere">>
       /\ HasProperties(req.body) /\ Truthy(KeyLocationOf(req.body))) =>
        /\ keyLookups = 0
        /\ apiKey = Null
        /\ Finished => (pc = "rejected" /\ AnswersFor("capability"))

\* x/y/openai/gpt-4 on rerank with a location that does not resolve.
C3_Witness ==
    /\ isRerank
    /\ pc = "rejected"
    /\ Get(req.body, "model")
          = Str(<<"x", Slash, "y", Slash, "openai", Slash, "gpt-4">>)
    /\ HasProperties(req.body)
    /\ KeyLocationOf(req.body) = Str(<<EnvPrefix, "BAR">>)
    /\ AnswersFor("capability")

\* C4: every call returns a result whose status is an HTTP status integer
\* and whose body is neither null nor undefined.
C4_ResultWellFormed ==
    Returned =>
        /\ result # NoResult
        /\ DOMAIN result = {"status", "data", "headers"}
        /\ result.status \in 100..599
        /\ result.data # Null
        /\ result.data # Undefined

\* C5: an upstream answer with a non-2xx status and a body comes back as
\* the forward result, and is relayed to the caller, with exactly that
\* status, that body and that answer's headers.
C5_UpstreamErrorVerbatim ==
    (Returned /\ upstream.kind = "error_response" /\ upstream.data # Str(<<>>)) =>
        /\ result = ForwardResult(upstream.status, upstream.data, upstream.headers)
        /\ Finished =>
             /\ res.status = upstream.status
             /\ res.body = upstream.data
             /\ \A h \in DOMAIN upstream.headers :
                   upstream.headers[h] # NullHeader =>
                      (h \in DOMAIN res.headers /\ res.headers[h] = upstream.headers[h])

\* C6: a call that fails without any upstream response yields status 500,
\* the body {error, details} with the transport error's message as details,
\* and no headers; any other failure yields status 500 with the
\* unexpected-error body carrying the failure's message.
C6_SyntheticFailure ==
    /\ (Returned /\ upstream.kind = "no_response") =>
          result = [status |-> 500,
                    data |-> [error |-> Str(<<"Error proxying request">>),
                              details |-> Str(upstream.message)],
                    headers |-> NoHeaders]
    /\ (Returned /\ upstream.kind = "other") =>
          result = [status |-> 500,
                    data |-> [error |-> Str(<<"Unexpected error during proxying">>),
                              details |-> Str(upstream.message)],
                    headers |-> NoHeaders]

\* A buffered call that timed out, relayed.
C6_Witness ==
    /\ pc = "relayed"
    /\ upstream.kind = "no_response"
    /\ upstream.message = <<"timeout of ", "30000", "ms exceeded">>
    /\ res.status = 500

\* C7: one request makes at most one outbound call, and exactly one once
\* the call has settled, however it settled.
C7_SingleAttempt ==
    /\ attempts <= 1
    /\ Called => attempts = 1

\* A failed call, relayed after its single attempt.
C7_Witness ==
    /\ pc = "relayed"
    /\ upstream.kind = "no_response"
    /\ attempts = 1

\* C8: the outbound headers are exactly Content-Type: application/json and
\* Authorization: Bearer <resolved credential>, and a request that differs
\* from the one before it only in its inbound headers makes the identical
\* outbound call (or, like it, none).
C8_NoInboundHeaderLeaks ==
    /\ Called =>
          /\ DOMAIN outbound.headers = {"Content-Type", "Authorization"}
          /\ outbound.headers["Content-Type"] = <<"application/json">>
          /\ outbound.headers["Authorization"] =
                <<"Bearer ">> \o env[Tail(KeyLocationOf(req.body).v)]
    /\ (prev.kind = "headers" /\ (Called \/ Finished)) => outbound = prev.outbound

\* The second of two such requests, forwarded.
C8_Witness ==
    /\ prev.kind = "headers"
    /\ pc = "relayed"
    /\ prev.outbound # NoConfig
    /\ outbound = prev.outbound

\* C9: a request rejected because its credential could not be resolved gets
\* the one fixed body, which holds nothing of the apiKeyLocation; and a
\* request that differs from the one before it only in an unresolvable
\* apiKeyLocation gets the identical response.
C9_KeyFailureUniform ==
    /\ (pc = "rejected" /\ FirstFailure = "credential") =>
          /\ res = [status |-> 400, headers |-> NoHeaders, via |-> "json",
                    body |-> [error |-> Str(<<"Failed to retrieve API key. Check apiKeyLocation and environment variables.">>)]]
          /\ \A i \in 1..Len(KeyLocationOf(req.body).v) :
                \A j \in 1..Len(res.body.error.v) :
                   res.body.error.v[j] # KeyLocationOf(req.body).v[i]
    /\ (prev.kind = "keyLocation" /\ Finished) => res = prev.res

\* The second of two such requests, rejected at the credential step.
C9_Witness ==
    /\ prev.kind = "keyLocation"
    /\ pc = "rejected"
    /\ FirstFailure = "credential"
    /\ res = prev.res

\* C10: for a request whose provider can rerank, the rerank endpoint writes
\* the response and makes the call that the shared orchestration makes when
\* run with the path suffix /rerank.
C10_RerankIsShared ==
    (isRerank /\ Finished /\ WellFormed(Get(req.body, "model"))
       /\ ProviderOf(req.body["model"]) = <<"cohere">>) =>
        /\ res = HandleProxyRequest(req, env, <<Slash, "rerank">>, upstream).res
        /\ outbound = HandleProxyRequest(req, env, <<Slash, "rerank">>, upstream).outbound


(***************************************************************************)
(* The piped relay (SpecStream)                                            *)
(***************************************************************************)
\* C11: with stream: true and a live upstream stream the response is piped,
\* and at every moment the body the caller has been sent is exactly the
\* sequence of chunks the upstream has emitted so far - same chunks, same
\* order, none dropped, repeated or changed, none held back until the end -
\* under the upstream's status.
C11_StreamPassedThrough ==
    /\ (pc = "relayed" /\ HasPipe(result.data)) => res.via = "pipe"
    /\ (pc = "relayed" /\ source.state # "errored") =>
          /\ wire.body = source.emitted
          /\ wire.headersSent => wire.sentStatus = result.status

\* Two different chunks have reached the caller while the upstream is
\* still flowing.
C11_Witness ==
    /\ source.state = "flowing"
    /\ Len(source.emitted) = 2
    /\ source.emitted[1] # source.emitted[2]
    /\ wire.body = source.emitted
    /\ ~wire.ended

\* C12: when the upstream stream fails while piped, the error is logged; a
\* 500 answer is written only if the head of the response has not gone out,
\* and once it has, neither the status nor anything else of the response
\* changes because of the error.
C12_StreamErrorBestEffort ==
    [][ /\ wire.headersSent =>
            /\ wire'.sentStatus = wire.sentStatus
            /\ wire'.statusCode = wire.statusCode
        /\ (source'.state = "errored" /\ source.state # "errored") =>
            /\ logged' = logged + 1
            /\ wire.headersSent => wire' = wire
            /\ (~wire.headersSent /\ client = "connected") =>
                 wire' = [statusCode |-> 500, headersSent |-> TRUE,
                          sentStatus |-> 500, body |-> <<StreamErrorBody>>,
                          ended |-> TRUE]
      ]_vars

\* The upstream failed after a chunk had gone out under status 200: the
\* response is as it was and the error was logged.
C12_Witness ==
    /\ source.state = "errored"
    /\ wire.sentStatus = 200
    /\ wire.body = source.emitted
    /\ Len(wire.body) > 0
    /\ ~wire.ended
    /\ logged = 1

\* C13: once the stream is piped, a disconnect of the caller aborts the
\* upstream read: after the disconnect was handled the upstream stream is
\* destroyed (or had failed by itself), not left open.
C13_DisconnectAbortsUpstream ==
    client = "gone" => source.state \in {"destroyed", "errored"}


(***************************************************************************)
(* launchCrawl (SpecCrawl)                                                 *)
(***************************************************************************)
Returned_ == crawlPc = "returned"

Records == 1..Len(collectedData)

\* C14: the list launchCrawl returns is never longer than maxRequests,
\* whatever the links, the interleaving of the handlers and the mix of
\* pages that succeed, are retried or fail.
C14_BudgetRespected ==
    Returned_ => Len(collectedData) <= options.maxRequests

\* C15: every record of the returned list belongs to a request of depth at
\* most maxDepth (the start url at depth 0, a link one deeper than the page
\* it was found on); a request deeper than maxDepth leaves no record.
C15_DepthRespected ==
    Returned_ => \A i \in Records : history[i].depth <= options.maxDepth

\* C16: with maxDepth 0 no url but the start url is ever enqueued or
\* fetched, and the returned list holds exactly one record.
C16_DepthZeroOnePage ==
    (crawlPc # "idle" /\ options.maxDepth = 0) =>
        /\ KnownUrls \subseteq {StartUrl}
        /\ Returned_ => Len(collectedData) = 1

\* C17: the returned list holds at most one record per url, also when an
\* attempt failed after its record was appended and the request was retried
\* or handed to failedRequestHandler; and no record was changed more than
\* twice after it was created.
C17_OneRecordPerUrl ==
    Returned_ =>
        /\ \A i, j \in Records :
              i # j => collectedData[i].url # collectedData[j].url
        /\ \A i \in Records : history[i].mutations <= 2

\* C18: a page whose conversion to markdown failed is recorded with the
\* error 'Failed to convert HTML to Markdown: <message>', without
\* markdownContent and with its title; it is not handed to the vector
\* store; and the failure does not fail the attempt or stop the crawl: the
\* step that records it leaves no task newly failed and the crawl running.
C18_ConversionFailureRecorded ==
    /\ [](\A i \in Records :
            history[i].conversion = "failed" =>
              /\ collectedData[i].error =
                   Str(<<ConvertErrorPrefix, "Markitdown service unavailable">>)
              /\ collectedData[i].markdownContent = Undefined
              /\ collectedData[i].title = TitleOf(collectedData[i].url)
              /\ history[i].indexing = "none")
    /\ [][(/\ Len(history') = Len(history) + 1
           /\ history'[Len(history')].conversion = "failed") =>
             /\ {t \in tasks' : t.at = "errored"} \subseteq tasks
             /\ crawlPc' = "running"
             /\ documents' = documents]_vars

\* The crawl has returned a list that holds a page whose conversion failed
\* and, after it, the record of another page.
C18_Witness ==
    /\ Returned_
    /\ documents.initialized
    /\ \E i, j \in Records :
         /\ i < j
         /\ history[i].conversion = "failed"
         /\ history[j].conversion = "ok"
         /\ collectedData[i].url # collectedData[j].url

\* C19: a page that was converted is handed to the vector store when there
\* is one - the document carrying the markdown and {url, title, path} - and
\* a failure of that is written into the record's error while the markdown
\* stays; without a vector store nothing is added and the record carries no
\* error.
C19_ConvertedPagesIndexed ==
    \A i \in Records :
      history[i].conversion = "ok" =>
        IF documents.initialized
        THEN /\ history[i].indexing # "none"
             /\ history[i].indexing = "failed" =>
                  /\ collectedData[i].error =
                       Str(<<VectorErrorPrefix, VectorErrorMessage>>)
                  /\ collectedData[i].markdownContent =
                       MarkdownOf(collectedData[i].url)
             /\ history[i].indexing = "added" =>
                  /\ collectedData[i].error = Undefined
                  /\ \E d \in 1..Len(documents.added) :
                       documents.added[d] =
                         [pageContent |-> MarkdownOf(collectedData[i].url),
                          metadata |-> [url |-> collectedData[i].url,
                                        title |-> collectedData[i].title,
                                        path |-> collectedData[i].path]]
        ELSE /\ history[i].indexing = "none"
             /\ collectedData[i].error = Undefined
             /\ documents.added = <<>>

\* C20: the record failedRequestHandler makes holds url, path and the error
\* 'Failed to crawl: <messages>' and nothing else; and a page no attempt
\* could navigate to has no other record and no document in the vector
\* store.
C20_FailedPageRecorded ==
    \A i \in Records :
      history[i].by = "failedRequestHandler" =>
        /\ DOMAIN collectedData[i] = {"url", "path", "error"}
        /\ collectedData[i].path = Str(Pathname(collectedData[i].url))
        /\ collectedData[i].error =
             Str(<<CrawlErrorPrefix, AttemptError, ", ", AttemptError>>)
        /\ ~history[i].loaded =>
             /\ \A j \in Records \ {i} :
                  collectedData[j].url # collectedData[i].url
             /\ \A d \in 1..Len(documents.added) :
                  documents.added[d].metadata.url # collectedData[i].url

\* The crawl has returned a list that holds, after the record of the start
\* page, the record of a page both attempts failed to navigate to.
C20_Witness ==
    /\ Returned_
    /\ \E i \in Records :
         /\ i > 1
         /\ history[i].by = "failedRequestHandler"
         /\ ~history[i].loaded
         /\ history[i].attempt = MaxRequestRetries

\* C21: launchCrawl raises only when the crawler cannot be started - the
\* start request cannot be added - and then nothing was fetched; once the
\* crawl runs, no failure of a page (navigation, conversion, indexing) and
\* no failure of the run itself ends it with an exception: such a step
\* leaves the crawl running, and the crawl ends by returning the list.
C21_OnlyStartFailureRaises ==
    /\ [](crawlPc = "raised" =>
            /\ collectedData = <<>>
            /\ handled = {}
            /\ tasks = {})
    /\ [][ /\ crawlPc' = "raised" => crawlPc \in {"idle", "raised"}
           /\ (crawlPc = "running" /\ crawlPc' # "running") =>
                 /\ crawlPc' \in {"returned", "recovered"}
                 /\ collectedData' = collectedData
           /\ ( \/ {t \in tasks' : t.at = "errored"} \ tasks # {}
                \/ /\ Len(collectedData') = Len(collectedData) + 1
                   /\ Truthy(collectedData'[Len(collectedData')].error) ) =>
                 crawlPc' = "running"
         ]_vars

\* The crawl has returned a list that holds a page no attempt could
\* fetch, a page whose conversion failed and a page the vector store
\* refused.
C21_Witness ==
    /\ crawlPc = "returned"
    /\ \E i, j, k \in Records :
         /\ history[i].by = "failedRequestHandler"
         /\ history[j].conversion = "failed"
         /\ history[k].indexing = "failed"

\* C22: a launchCrawl call starts from a frontier of its own that holds its
\* start url and nothing else, whatever the calls before it enqueued or
\* handled: while it has neither a handler in flight nor a request handled,
\* the requests waiting are for its start url.
C22_CrawlsShareNothing ==
    (crawlPc = "running" /\ tasks = {} /\ handled = {}) =>
        {r.url : r \in queue} = {options.startUrl}

(***************************************************************************)
(* MCPClientService (SpecMcp)                                              *)
(***************************************************************************)
Calls == 1..Len(invocations)

\* The service of the j-th call is used sequentially: every call made on
\* it so far began when no call on it was in flight and saw no
\* disconnect() while it was in flight.
Sequential(j) ==
    \A k \in Calls :
      invocations[k].serviceUrl = invocations[j].serviceUrl =>
        ~invocations[k].overlapped

\* The call has connected a client.
Established(i) ==
    \E n \in 1..Len(invocations[i].tried) :
      clients[invocations[i].tried[n]].state = "connected"

\* The call ended because neither transport could connect.
ConnectFailed(i) ==
    /\ invocations[i].pc = "threw"
    /\ Len(invocations[i].tried) = 2
    /\ clients[invocations[i].tried[2]].state = "failed"

\* The call made on the same service just before the j-th, 0 if none.
Previous(j) ==
    LET before == {i \in 1..(j - 1) :
                     invocations[i].serviceUrl = invocations[j].serviceUrl}
    IN IF before = {} THEN 0
       ELSE CHOOSE i \in before : \A k \in before : k <= i

\* C23: connect() tries the Streamable HTTP transport first and the SSE
\* transport only after that has failed, and tries nothing after the SSE
\* transport; when the SSE transport fails too the call ends with the
\* error, and the service is left not connected: the next call on it tries
\* to connect again.
C23_PrimaryThenFallbackOnce ==
    /\ \A i \in Calls :
         LET t == invocations[i].tried IN
         /\ Len(t) <= 2
         /\ Len(t) >= 1 => clients[t[1]].transport = "StreamableHTTP"
         /\ Len(t) = 2 =>
              /\ clients[t[2]].transport = "SSE"
              /\ clients[t[1]].state = "failed"
              /\ clients[t[2]].state = "failed" => invocations[i].pc = "threw"
    /\ \A j \in Calls :
         (Sequential(j) /\ ConnectFailed(j)) =>
            \/ ~instances[invocations[j].serviceUrl].isConnected
            \/ \E k \in Calls : k > j /\ Established(k)
    /\ \A j \in Calls :
         (Sequential(j) /\ Previous(j) # 0 /\ ConnectFailed(Previous(j))) =>
            /\ ~invocations[j].readyAtStart
            /\ Len(invocations[j].tried) >= 1

\* Both transports failed for the first call; the next call on the service
\* tried the primary transport again and is connected over the fallback.
C23_Witness ==
    /\ Len(invocations) = 2
    /\ invocations[2].serviceUrl = invocations[1].serviceUrl
    /\ ConnectFailed(1)
    /\ ~invocations[2].overlapped
    /\ Len(invocations[2].tried) = 2
    /\ clients[invocations[2].tried[2]].state = "connected"
    /\ instances[invocations[2].serviceUrl].isConnected

\* C24: whatever the number of callTool calls on one service and however
\* they overlap, every tool call is issued on a client whose connect has
\* completed, and (no disconnect() being made) at most one connection to
\* the service is ever established.
C24_OneConnectionForAll ==
    /\ \A i \in Calls :
         invocations[i].usedClient # 0 => invocations[i].issuedOn = "connected"
    /\ \A serviceUrl \in DOMAIN instances :
         instances[serviceUrl].disconnects = 0 =>
           Cardinality({c \in 1..Len(clients) :
                          /\ clients[c].serviceUrl = serviceUrl
                          /\ clients[c].state = "connected"}) <= 1

\* C25: in sequential use, a call made when no earlier call has connected
\* the service since it was created or last disconnected connects first,
\* and issues its tool call only on the client it has connected; a call
\* made after one that connected issues its tool call on that connection
\* and makes no attempt to connect: N calls in a row connect once.
C25_ConnectOnlyWhenNeeded ==
    \A j \in Calls :
      Sequential(j) =>
        LET inv == invocations[j]
            connectedBy == {i \in 1..(j - 1) :
                              /\ invocations[i].serviceUrl = inv.serviceUrl
                              /\ invocations[i].epoch = inv.epoch
                              /\ Established(i)}
        IN /\ connectedBy # {} =>
                /\ inv.tried = <<>>
                /\ inv.op = "callTool" =>
                     /\ inv.issuedOn = "connected"
                     /\ \E i \in connectedBy : \E n \in 1..Len(invocations[i].tried) :
                          inv.usedClient = invocations[i].tried[n]
           /\ connectedBy = {} => Len(inv.tried) >= 1
           /\ (inv.usedClient # 0 /\ inv.tried # <<>>) =>
                /\ inv.usedClient = inv.tried[Len(inv.tried)]
                /\ inv.issuedOn = "connected"

\* Two callTool calls in a row have returned their results: the first
\* connected, the second used that connection.
C25_Witness ==
    /\ Len(invocations) = 2
    /\ \A i \in Calls :
         /\ invocations[i].op = "callTool"
         /\ invocations[i].pc = "done"
         /\ ~invocations[i].overlapped
    /\ invocations[1].serviceUrl = invocations[2].serviceUrl
    /\ Len(invocations[1].tried) = 1
    /\ invocations[2].tried = <<>>
    /\ invocations[2].usedClient = invocations[1].usedClient
    /\ invocations[1].result # invocations[2].result

\* C26: of the service objects getInstance has returned, two are the same
\* object exactly when they were asked for with the same url.
C26_OneInstancePerUrl ==
    \A i, j \in 1..Len(handles) :
      (handles[i].serviceUrl = handles[j].serviceUrl) <=>
         (handles[i].id = handles[j].id)

\* getInstance was called twice with one url and once with another.
C26_Witness ==
    /\ Len(handles) = 3
    /\ handles[1].serviceUrl = handles[3].serviceUrl
    /\ handles[1].serviceUrl # handles[2].serviceUrl
    /\ handles[1].id = handles[3].id

(***************************************************************************)
(* parseModelString and getApiKey (SpecUnit)                               *)
(***************************************************************************)
\* The function has been called and has returned.
Applied(fn) == call.fn = fn /\ call.done

Parsed == Applied("parseModelString") /\ call.arg.t = "string"

FourNonEmpty(parts) == Len(parts) = 4 /\ \A n \in 1..4 : parts[n] # <<>>

Components(parsed) ==
    <<parsed.ownerSlug, parsed.packageSlug, parsed.provider, parsed.modelName>>

\* C27: parseModelString of a string joined from four non-empty,
\* slash-free segments is valid and holds the four segments in order;
\* joining its components gives the string back.
C27_RoundTrip ==
    (Parsed /\ FourNonEmpty(call.built)) =>
        /\ call.returned.isValid
        /\ Components(call.returned) = call.built
        /\ Join(Components(call.returned)) = call.arg.v

\* parseModelString was called with the string a/b/ab/a and returned its
\* four segments.
C27_Witness ==
    /\ Parsed
    /\ call.built = << <<"a">>, <<"b">>, <<"a", "b">>, <<"a">> >>
    /\ call.returned.isValid
    /\ call.returned.provider = <<"a", "b">>

\* C28 as stated: every string that does not split into exactly four
\* segments is rejected with the invalid-format error, every string of four
\* segments with an empty one with the empty-segment error, and nothing
\* else than four non-empty segments is valid.
C28_AsStated ==
    Parsed =>
        /\ Len(call.built) # 4 =>
              /\ ~call.returned.isValid
              /\ call.returned.error =
                    <<"InvalidFormat", ToString(Len(call.built))>>
        /\ (Len(call.built) = 4 /\ ~FourNonEmpty(call.built)) =>
              /\ ~call.returned.isValid
              /\ call.returned.error = <<"EmptySegment">>
        /\ call.returned.isValid => FourNonEmpty(call.built)

\* C28: every non-empty string that does not split into exactly four
\* segments is rejected with the invalid-format error (which names the
\* number of segments found), every string of four segments with an empty
\* one with the empty-segment error; the empty string and every value that
\* is not a string are rejected with the not-a-string error; nothing else
\* than four non-empty segments is valid.
C28_RejectsMalformed ==
    Applied("parseModelString") =>
        /\ (Parsed /\ call.arg.v # <<>> /\ Len(call.built) # 4) =>
              /\ ~call.returned.isValid
              /\ call.returned.error =
                    <<"InvalidFormat", ToString(Len(call.built))>>
        /\ (Parsed /\ Len(call.built) = 4 /\ ~FourNonEmpty(call.built)) =>
              /\ ~call.returned.isValid
              /\ call.returned.error = <<"EmptySegment">>
        /\ (~Parsed \/ call.arg.v = <<>>) =>
              /\ ~call.returned.isValid
              /\ call.returned.error = <<"NotAString">>
        /\ call.returned.isValid => (Parsed /\ FourNonEmpty(call.built))

\* parseModelString has rejected a string of four segments whose second
\* segment is empty.
C28_Witness ==
    /\ Parsed
    /\ call.built = << <<"a">>, <<>>, <<"b">>, <<"a">> >>
    /\ call.returned.error = <<"EmptySegment">>

KeyOf(descriptor) == Applied("getApiKey") /\ call.arg = descriptor

TableProviders ==
    { <<"openai">>, <<"anthropic">>, <<"cohere">>, <<"google">>, <<"gemini">> }

WithoutTrailingSlash(s) ==
    IF Len(s) > 0 /\ s[Len(s)] = "/" THEN SubSeq(s, 1, Len(s) - 1) ELSE s

\* C30: on the chat, completion and embedding endpoints, a request that is
\* forwarded goes to the apiBase of its calliopeProperties, without its
\* trailing slash, followed by the endpoint path, when it names a
\* non-empty apiBase; otherwise its provider is one of the table and the
\* url is the default base of that provider followed by the endpoint path
\* (https://api.openai.com/v1/chat/completions for openai on
\* chat/completions).  A request that passes every check before and has
\* neither an apiBase nor a provider of the table is answered 400 and no
\* outbound call is made.
C30_DownstreamUrl ==
    ~isRerank =>
        LET apiBase == Get(Properties(req.body), "apiBase") IN
        /\ Called =>
              IF Truthy(apiBase)
              THEN outbound.url = WithoutTrailingSlash(apiBase.v) \o req.path
              ELSE /\ ProviderOf(req.body["model"]) \in TableProviders
                   /\ outbound.url =
                        DefaultBases[ProviderOf(req.body["model"])] \o req.path
                   /\ ( /\ ProviderOf(req.body["model"]) = <<"openai">>
                        /\ req.path = <<"/", "chat", "/", "completions">> ) =>
                         outbound.url =
                           <<"https://api.openai.com/v1", "/", "chat", "/",
                             "completions">>
        /\ ( /\ pc \notin {"received", "validated", "parsed", "capable", "keyed"}
             /\ FirstFailure = "none"
             /\ ~Truthy(apiBase)
             /\ ProviderOf(req.body["model"]) \notin TableProviders ) =>
              /\ res.status = 400
              /\ attempts = 0
              /\ outbound = NoConfig

\* A request naming an apiBase with a trailing slash was forwarded to the
\* base without it.
C30_Witness ==
    /\ Called
    /\ ~isRerank
    /\ Get(Properties(req.body), "apiBase") = Str(<<"http://llm.local/v1", "/">>)
    /\ outbound.url = <<"http://llm.local/v1">> \o req.path

C36_RelayedAsForwarded ==
    (Called /\ Finished) =>
        /\ res.status = result.status
        /\ ~HasPipe(result.data) =>
              res.via = "json" /\ res.body = result.data
        /\ \A h \in DOMAIN result.headers :
              IF result.headers[h] = NullHeader
              THEN h \notin DOMAIN res.headers
              ELSE h \in DOMAIN res.headers
                   /\ res.headers[h] = result.headers[h]

(***************************************************************************)
(* The headers of a piped relay (Spec)                                     *)
(***************************************************************************)
\* The three headers lines 102-110 give a default, with that default.
StreamDefaults ==
    [h \in {"content-type", "cache-control", "connection"} |->
       CASE h = "content-type" -> "text/event-stream"
         [] h = "cache-control" -> "no-cache"
         [] OTHER -> "keep-alive"]

\* The upstream response carries the header with a value.
Supplied(h) ==
    h \in DOMAIN result.headers /\ result.headers[h] # NullHeader

\* C37 as stated: when a live stream is relayed, each of content-type,
\* cache-control and connection has its default (text/event-stream,
\* no-cache, keep-alive) only when the upstream response did not supply
\* it; a value the upstream supplied is on the response unchanged.
C37_AsStated ==
    (pc = "relayed" /\ res.via = "pipe") =>
        \A h \in DOMAIN StreamDefaults :
            res.headers[h] = IF Supplied(h) THEN result.headers[h]
                             ELSE StreamDefaults[h]

\* C37: when a live stream is relayed, each of content-type, cache-control
\* and connection has its default (text/event-stream, no-cache,
\* keep-alive) when the upstream response did not supply it or supplied
\* the empty string for it; any other value the upstream supplied is on
\* the response unchanged.
C37_DefaultsOnlyWhenUnset ==
    (pc = "relayed" /\ res.via = "pipe") =>
        \A h \in DOMAIN StreamDefaults :
            res.headers[h] =
               IF Supplied(h) /\ result.headers[h] # ""
               THEN result.headers[h] ELSE StreamDefaults[h]

\* A live stream was relayed whose upstream supplied content-type and
\* cache-control, both kept, and an empty connection header, replaced.
C37_Witness ==
    /\ pc = "relayed"
    /\ res.via = "pipe"
    /\ Supplied("cache-control")
    /\ res.headers["cache-control"] = "no-store"
    /\ res.headers["content-type"] = "text/event-stream; charset=utf-8"
    /\ result.headers["connection"] = ""
    /\ res.headers["connection"] = "keep-alive"

(***************************************************************************)
(* The stages of a request (Spec)                                          *)
(***************************************************************************)
\* The stage a handler is in: Received, Validated (presence, model string,
\* capability), Resolved (credential, endpoint), Forwarded (call made,
\* result returned), Relayed (the response written from the result, by the
\* relay or by the error handler the relay's failure is passed to), and
\* Rejected.
Stage ==
    CASE pc = "received" -> 0
      [] pc \in {"validated", "parsed", "capable"} -> 1
      [] pc \in {"keyed", "resolved"} -> 2
      [] pc \in {"forwarded", "returned"} -> 3
      [] pc \in {"relayed", "errored"} -> 4
      [] OTHER -> 5

StageNext ==
    CASE pc' = "received" -> 0
      [] pc' \in {"validated", "parsed", "capable"} -> 1
      [] pc' \in {"keyed", "resolved"} -> 2
      [] pc' \in {"forwarded", "returned"} -> 3
      [] pc' \in {"relayed", "errored"} -> 4
      [] OTHER -> 5

\* C35: a request moves through Received, Validated, Resolved, Forwarded
\* and Relayed in that order, never back and skipping none, or leaves a
\* stage before Forwarded for Rejected; no response is started before the
\* request is Relayed or Rejected, exactly one is started then, and it is
\* not replaced afterwards.
C35_StagesInOrderOneResponse ==
    /\ [](IF Finished THEN res # NoResponse ELSE res = NoResponse)
    /\ [][ served' = served =>
             /\ StageNext \in {Stage, Stage + 1, 5}
             /\ StageNext = 5 => Stage \in {0, 1, 2, 5}
             /\ Stage = 4 => StageNext = 4
             /\ Finished => res' = res ]_vars

\* A request went through every stage: one call was made and its result is
\* the one response written.
C35_Witness ==
    /\ pc = "relayed"
    /\ attempts = 1
    /\ res = Relay(req.body, result)
    /\ res.status = 200

(***************************************************************************)
(* The end of a piped response (SpecStream)                                *)
(***************************************************************************)
\* C38: a piped response ends: once the upstream stream has finished, by
\* its end or by an error, raised before or after bytes went out, the
\* response to a caller who is still connected has been ended.  (Ending
\* the response is part of the handling of 'end' and 'error'; no later
\* step of the handler would do it.)
C38_StreamedResponseEnds ==
    (pc = "relayed" /\ source.state \in {"ended", "errored"}
       /\ client = "connected") => wire.ended

(***************************************************************************)
(* What a page adds to the frontier (SpecCrawl)                            *)
(***************************************************************************)
\* The requests a step adds to the queue for urls the queue had not seen.
Discovered == { r \in queue' : r.url \notin KnownUrls }

\* The handler of task t finishes its enqueueLinks call in this step.
Enqueues(t) ==
    /\ t \in tasks
    /\ t.at = "enqueueing"
    /\ t \notin tasks'
    /\ t.request.url \in handled'

Returns == crawlPc \in {"returned", "recovered"}

\* No page handler is in flight and the frontier is empty or the request
\* limit was reached.
CrawlExhausted ==
    /\ tasks = {}
    /\ queue = {} \/ Cardinality(handled) >= options.maxRequests

\* C39 as stated: a crawl that was launched eventually returns, and it
\* returns only when the frontier is empty or maxRequests was reached, with
\* no page handler in flight.
C39_AsStated ==
    /\ (crawlPc = "running") ~> Returns
    /\ [](Returns => CrawlExhausted)

\* C39: a crawl that was launched eventually returns; when its run
\* resolves it returns only when the frontier is empty or maxRequests was
\* reached, with no page handler in flight; when its run rejects it returns
\* at once, whatever the frontier holds.
C39_TerminatesWhenExhausted ==
    /\ (crawlPc = "running") ~> Returns
    /\ [](crawlPc = "returned" => CrawlExhausted)
    /\ [][crawlPc' = "returned" => (crawlPc = "returned" \/ CrawlExhausted)]_vars

\* A crawl returned with the request limit reached while the frontier
\* still held a link.
C39_Witness ==
    /\ crawlPc = "returned"
    /\ tasks = {}
    /\ queue # {}
    /\ Cardinality(handled) >= options.maxRequests
    /\ Len(collectedData) >= 1

(***************************************************************************)
(* The top-level error handler (SpecUnit)                                  *)
(***************************************************************************)
\* The handler has answered the error of this call.
ErrorAnswered ==
    /\ call.done
    /\ call.fn \in {"globalErrorHandler", "globalErrorHandlerStandard"}

\* The handler takes the error for an operational one.
Operational ==
    IF call.fn = "globalErrorHandler" THEN Truthy(call.arg.isOperational)
    ELSE StandardIsOperational(call.arg)

\* The values found in a response body, one level into its objects.
Disclosed(body) ==
    { body[f] : f \in DOMAIN body } \cup
    UNION { { body[f][g] : g \in DOMAIN body[f] } :
              f \in { k \in DOMAIN body : ~IsScalar(body[k]) } }

\* C33: an error that is not operational is answered, when NODE_ENV is not
\* development, with status 500 and the fixed message 'Something went very
\* wrong!': nothing in the response is the error's message or its stack.
\* The stack of an error, operational or not, is in the response only when
\* NODE_ENV is development.
C33_GenericOutsideDevelopment ==
    ErrorAnswered =>
        /\ (~Operational /\ ~IsDevelopment(env)) =>
              /\ call.returned.status = 500
              /\ GenericMessage \in Disclosed(call.returned.body)
              /\ Truthy(call.arg.message) =>
                    call.arg.message \notin Disclosed(call.returned.body)
              /\ call.arg.stack \notin Disclosed(call.returned.body)
              /\ call.returned.body \in
                    { [status |-> Str(<<"error">>), message |-> GenericMessage],
                      [error |-> GenericMessage, statusCode |-> Num(500)] }
        /\ call.arg.stack \in Disclosed(call.returned.body) =>
              IsDevelopment(env)

\* With NODE_ENV set to production, a TypeError carrying a message and a
\* status code of its own got the generic 500.
C33_Witness ==
    /\ ErrorAnswered
    /\ ~Operational
    /\ <<"NODE_ENV">> \in DOMAIN env
    /\ env[<<"NODE_ENV">>] = <<"production">>
    /\ call.arg.name = "TypeError"
    /\ call.arg.statusCode = 503
    /\ Truthy(call.arg.message)
    /\ call.returned.status = 500

(***************************************************************************)
(* The crawl endpoint (SpecApi)                                            *)
(***************************************************************************)
\* The controller of /api/crawl has called launchCrawl.
CrawlLaunched ==
    req.path = ApiCrawl /\ pc \in {"launched", "relayed", "errored"}

\* The value the caller gave for a limit, or the default when the caller
\* left the parameter out.
Requested(parameter, default) ==
    IF parameter \in DOMAIN req.body THEN parseInt(req.body[parameter])
    ELSE default

\* C31: the crawl runs with the maxDepth and the limit of the request
\* body, the defaults 2 and 50 standing in only for a parameter that is
\* left out; a crawl asked for with maxDepth 0 returns records of the start
\* page only.
C31_CallerLimitsRespected ==
    CrawlLaunched =>
        /\ options.maxDepth = Requested("maxDepth", DefaultDepth)
        /\ options.maxRequests = Requested("limit", DefaultLimit)
        /\ (crawlPc = "returned" /\ Requested("maxDepth", DefaultDepth) = 0) =>
              \A i \in 1..Len(collectedData) : collectedData[i].url = StartUrl

(***************************************************************************)
(* The authentication middleware (SpecApi)                                 *)
(***************************************************************************)
\* The request carries what its route asks for: the six headers, each with
\* a value, on /api/web and /api/crawl; Authorization: Bearer followed by a
\* token on the model-proxy and analytics routes.
Authenticated ==
    IF req.path \in TokenRoutes
    THEN \A h \in HeaderNames :
            h \in DOMAIN req.headers /\ req.headers[h] # <<>>
    ELSE /\ "authorization" \in DOMAIN req.headers
         /\ Len(req.headers["authorization"]) >= 2
         /\ req.headers["authorization"][1] = "Bearer "

\* The controller of the route was entered.
ControllerEntered == pc \notin {"arrived", "unauthorized"}

\* C32: the controller of a protected route is entered only for a request
\* that carries what the route asks for; any other request is answered
\* 401 by the middleware, and for it the controller is never entered: no
\* crawl is launched and no upstream call is made.
C32_ControllerOnlyAfterAuth ==
    /\ ControllerEntered => Authenticated
    /\ (pc # "arrived" /\ ~Authenticated) =>
          /\ pc = "unauthorized"
          /\ res.status = 401
          /\ res.via = "json"
          /\ crawlPc = "idle"
          /\ options = NoOptions
          /\ attempts = 0
          /\ outbound = NoConfig

\* A crawl request naming a start url and lacking only the uniqueid header
\* was answered 401 with no crawl launched.
C32_Witness ==
    /\ pc = "unauthorized"
    /\ req.path = ApiCrawl
    /\ DOMAIN req.headers = HeaderNames \ {"uniqueid"}
    /\ Truthy(Get(req.body, "startUrl"))
    /\ res.status = 401
    /\ crawlPc = "idle"

=============================================================================
